---- MODULE Spec2Model ----
(***************************************************************************)
(* A model of the MQTT microservice: the session supervisor and the        *)
(* sessions (internal/mqtt), the message outbox (internal/database), the   *)
(* webhook dispatch engine (internal/api) and the topic matcher (utils).   *)
(*                                                                         *)
(* The module holds its specifications over one set of variables:          *)
(*   SpecOutbox      Publish and the outbox store operations               *)
(*   SpecStore       the message operations of the Database interface      *)
(*   SpecSession     Subscribe, Unsubscribe, Publish, loss and reconnect   *)
(*   SpecSupervisor  concurrent Manager.GetClient calls                    *)
(*   SpecDispatch    inbound messages, dispatch tasks and HTTP deliveries  *)
(*   SpecDispatchFair  the same, with the goroutines scheduled             *)
(*   SpecMatch       TopicMatchesFilter on every topic and filter          *)
(*   SpecRegistry    the webhook requests and the registry lookup          *)
(*   SpecWebhookRequests  the webhook requests, get included               *)
(*   SpecMetrics     concurrent calls on the metrics Aggregator            *)
(*   SpecLatency     the latency windows of the Aggregator                 *)
(*   SpecAuth        the authentication middleware                         *)
(*   SpecRoutes      the router and the message handlers behind it         *)
(*   SpecHandlers    concurrent subscribe and unsubscribe requests         *)
(*   SpecBroker      Start and Stop of the embedded broker                 *)
(* Each specification leaves the variables of the others unchanged.        *)
(***************************************************************************)
EXTENDS Integers, Sequences, FiniteSets, TLC

(***************************************************************************)
(* Bounds of the model.                                                    *)
(***************************************************************************)
\* the wall clock runs from 1 to MaxTime
MaxTime == 2
\* number of ObjectIDs the document backend may generate
MaxOid == 2
\* number of inbound messages the subscription's handler is given
MaxMessages == 2
\* The longest topic and the longest filter TopicMatchesFilter is called with.
MaxTopicLen == 5
MaxFilterLen == 3
\* number of definitions the webhooks table may hold
MaxWebhooks == 2
\* number of calls a goroutine makes on the metrics Aggregator
MaxCalls == 2
\* number of samples added to a latency window
MaxSamples == 102

VARIABLES
  \* ---- outbox and Publish ----
  backend,      \* "sqlite" or "mongodb": the registered provider in use
  dbAvail,      \* manager.db != nil
  now,          \* the wall clock (time.Now)
  oidCounter,   \* the ObjectID counter of the document backend
  messages,     \* the messages table: id -> record
  lastOp,       \* the call that returned last (Publish or a store operation) and its result
  connected,    \* client.IsConnected() of the session Publish uses
  ppc,          \* per Publish caller: where it is in Client.Publish
  pin,          \* per Publish caller: the arguments of the call
  \* ---- session supervisor ----
  clients,      \* Manager.clients: broker name -> session (NoClient: no entry)
  sessions,     \* every Client object createClient has built: [id, name]
  gpc,          \* per GetClient caller: where it is in Manager.GetClient
  garg,         \* per GetClient caller: the brokerName it was called with
  gname,        \* per GetClient caller: brokerName, once resolved
  gclient,      \* per GetClient caller: the local variable client
  handed,       \* every (name, session) a GetClient call has returned
  lastGet,      \* the GetClient call that returned last: [name, id, err]
  \* ---- webhook dispatch ----
  webhooks,      \* the webhooks table, newest created_at first
  webhookConfig, \* config.Webhook: the global target
  received,      \* number of messages the transport has handed to messageHandler
  task,          \* per handled message: its sendWebhookNotification goroutine
  firstOrder,    \* per target URL: the messages in the order of their first client.Do
  \* ---- the session's subscriptions ----
  cleanSession,  \* BrokerConfig.CleanSession of the session
  subscriptions, \* Client.subscriptions: the tracked topics
  transportSubs, \* the subscriptions the broker holds for the session: topic -> qos
  \* ---- a call of TopicMatchesFilter ----
  mtopic,        \* the topic argument
  mfilter,       \* the filter argument
  mdone,         \* the call has returned
  matched,       \* what it returned
  \* ---- the webhook registry ----
  registry,      \* the webhooks table: a sequence of definitions
  lastReg,       \* the last registry request and its answer
  \* ---- the metrics Aggregator ----
  metrics,       \* the fields of the Metrics object
  mu,            \* Metrics.mu: the goroutine holding Lock and those holding RLock
  mproc,         \* per goroutine: where it is in a call on the Aggregator
  calls,         \* the calls that have returned, per counter and per window
  \* ---- the authentication middleware ----
  authConfig,    \* auth.Config: EnableAPIKey and APIKeys
  lastReq,       \* the last request the middleware was given, and its answer
  \* ---- the router ----
  routed,        \* the last request the router was given, its handler and answer
  \* ---- the subscribe and unsubscribe handlers ----
  tracked,       \* per session: Client.subscriptions, topic -> the req.Broker of its callback
  hpc,           \* per request: where its handler is
  hcount,        \* per request: the local variable subscriptionCount
  subscriptionCount, \* Metrics.SubscriptionCount
  envelope,      \* the WebhookPayload built last, and the session it came from
  \* ---- the embedded broker ----
  brokerConfig,  \* Broker.config
  running,       \* Broker.running
  server,        \* the embedded server: "new", "serving" or "closed"
  listeners,     \* the listeners added to the server
  closing,       \* a goroutine of a Stop that gave up is still in server.Close()
  brokerSaid     \* the Start or Stop that returned last, and whether with an error

outVars == <<backend, dbAvail, now, oidCounter, messages, lastOp,
             connected, ppc, pin>>

supVars == <<clients, sessions, gpc, garg, gname, gclient, handed, lastGet>>

disVars == <<webhooks, webhookConfig, received, task, firstOrder>>

sesVars == <<cleanSession, subscriptions, transportSubs>>

matVars == <<mtopic, mfilter, mdone, matched>>

regVars == <<registry, lastReg>>

metVars == <<metrics, mu, mproc, calls>>

authVars == <<authConfig, lastReq>>

rtVars == <<routed>>

hdlVars == <<tracked, hpc, hcount, subscriptionCount, envelope>>

brkVars == <<brokerConfig, running, server, listeners, closing, brokerSaid>>

vars == <<outVars, supVars, disVars, sesVars, matVars, regVars, metVars, authVars, rtVars, hdlVars, brkVars>>

(***************************************************************************)
(* internal/database: the Message record and the two backends.             *)
(***************************************************************************)
NoID == ""
\* time.Time{}: Timestamp.IsZero()
ZeroTime == 0

\* The zero Message, without its id.
NoRecord == [topic |-> "", payload |-> "", qos |-> 0, retained |-> FALSE,
             timestamp |-> ZeroTime, confirmed |-> FALSE]

Backends == {"sqlite", "mongodb"}

\* A payload is modelled by its Go type: "string", "bytes", "number",
\* "object" (a map or struct) or "func" (a value JSON cannot encode).
\* json.Marshal fails on functions and channels only.
Marshalable(kind) == kind # "func"

\* The id a backend generates for a record without one:
\* fmt.Sprintf("%d", time.Now().UnixNano()) or primitive.NewObjectID().Hex().
NewID(b, t, c) == IF b = "sqlite" THEN ToString(t) ELSE "oid" \o ToString(c)

\* The form in which a payload is written to the backend.
StoredPayload(b, kind) ==
  IF b = "sqlite"
    THEN (IF kind \in {"string", "bytes"} THEN kind ELSE "json")
    ELSE kind

\* The timestamp of every stored record is the time of the call.
AssignTimestampNow(msg, t) == t

\* if msg.Timestamp.IsZero() { msg.Timestamp = time.Now() }
AssignTimestamp(msg, t) ==
  IF msg.timestamp = ZeroTime THEN t ELSE msg.timestamp

\* StoreMessage with an INSERT OR REPLACE in place of the INSERT.
StoreMessageUpsert(tbl, msg, b, t, c, fail) ==
  LET id == IF msg.id = NoID THEN NewID(b, t, c) ELSE msg.id
      ts == AssignTimestamp(msg, t)
      rec == [topic |-> msg.topic, payload |-> StoredPayload(b, msg.payload),
              qos |-> msg.qos, retained |-> msg.retained,
              timestamp |-> ts, confirmed |-> msg.confirmed]
  IN IF ~Marshalable(msg.payload)
       THEN [err |-> "marshal", tbl |-> tbl, id |-> id]
       ELSE IF fail
         THEN [err |-> "insert", tbl |-> tbl, id |-> id]
         ELSE [err |-> "nil", id |-> id,
               tbl |-> [k \in (DOMAIN tbl) \cup {id} |->
                          IF k = id THEN rec ELSE tbl[k]]]

\* StoreMessage: assigns id and timestamp when absent, encodes the payload,
\* inserts. The insert fails on a backend error and on a duplicate primary key.
StoreMessage(tbl, msg, b, t, c, fail) ==
  LET id == IF msg.id = NoID THEN NewID(b, t, c) ELSE msg.id
      ts == AssignTimestamp(msg, t)
      rec == [topic |-> msg.topic, payload |-> StoredPayload(b, msg.payload),
              qos |-> msg.qos, retained |-> msg.retained,
              timestamp |-> ts, confirmed |-> msg.confirmed]
  IN IF ~Marshalable(msg.payload)
       THEN [err |-> "marshal", tbl |-> tbl, id |-> id]
       ELSE IF fail \/ id \in DOMAIN tbl
         THEN [err |-> "insert", tbl |-> tbl, id |-> id]
         ELSE [err |-> "nil", id |-> id,
               tbl |-> [k \in (DOMAIN tbl) \cup {id} |->
                          IF k = id THEN rec ELSE tbl[k]]]

\* Layouts of the text of a time.
DateTimeLayout == "2006-01-02 15:04:05"
RFC3339Nano == "2006-01-02T15:04:05.999999999Z07:00"

\* rows.Scan of the timestamp DATETIME column into a string: the driver
\* hands the column over as a time.Time, which database/sql writes into a
\* string destination with Format(time.RFC3339Nano).
ScanTimestamp(ts) == [layout |-> RFC3339Nano, t |-> ts]

\* time.Parse(layout, text): an error unless the text has the layout.
TimeParse(layout, text) ==
  IF text.layout = layout THEN [err |-> FALSE, t |-> text.t]
  ELSE [err |-> TRUE, t |-> ZeroTime]

\* The row of a record as GetMessageByID and GetMessages read it. SQLite:
\* scan the columns, then parse the timestamp text with the date-time
\* layout. MongoDB: decode the document.
ReadRow(rec, b) ==
  IF b = "sqlite"
    THEN LET p == TimeParse(DateTimeLayout, ScanTimestamp(rec.timestamp))
         IN IF p.err THEN [err |-> "parse", msg |-> NoRecord]
            ELSE [err |-> "nil", msg |-> [rec EXCEPT !.timestamp = p.t]]
    ELSE [err |-> "nil", msg |-> rec]

\* GetMessageByID: the record, ErrMessageNotFound, or the error of reading
\* the row.
GetMessageByID(tbl, id, b) ==
  IF id \in DOMAIN tbl
    THEN LET r == ReadRow(tbl[id], b)
         IN [err |-> r.err, found |-> r.err = "nil", msg |-> r.msg]
    ELSE [err |-> "notfound", found |-> FALSE, msg |-> NoRecord]

\* if limit <= 0 { limit = 100 }
DefaultLimit == 100
EffectiveLimit(limit) == IF limit <= 0 THEN DefaultLimit ELSE limit

\* WHERE confirmed = ?
Qualifying(tbl, confirmed) == {k \in DOMAIN tbl : tbl[k].confirmed = confirmed}

\* ORDER BY timestamp DESC: the orders in which the backend may yield the
\* rows ids; rows of one timestamp come in any order.
Orderings(tbl, ids) ==
  {o \in [1..Cardinality(ids) -> ids] :
     /\ \A i, j \in DOMAIN o : i # j => o[i] # o[j]
     /\ \A i, j \in DOMAIN o :
          i < j => tbl[o[i]].timestamp >= tbl[o[j]].timestamp}

\* The query of GetMessages: the first EffectiveLimit(limit) rows of an
\* ordering of the qualifying rows.
QueryRows(tbl, confirmed, limit) ==
  {SubSeq(o, 1, IF Len(o) < EffectiveLimit(limit) THEN Len(o)
                ELSE EffectiveLimit(limit)) :
     o \in Orderings(tbl, Qualifying(tbl, confirmed))}

\* GetMessages: reads the rows of the query one by one and returns them in
\* the order of the query, or the error of the first row it cannot read.
GetMessages(tbl, rows, b, fail) ==
  IF fail THEN [err |-> "backend", list |-> <<>>]
  ELSE IF \E i \in DOMAIN rows : ReadRow(tbl[rows[i]], b).err # "nil"
    THEN [err |-> "parse", list |-> <<>>]
  ELSE [err |-> "nil", list |-> rows]

\* ConfirmMessage that counts the rows the update changed, not the rows it
\* matched.
ConfirmMessageModified(tbl, id, fail) ==
  IF fail THEN [err |-> "backend", tbl |-> tbl]
  ELSE IF id \notin DOMAIN tbl \/ tbl[id].confirmed
    THEN [err |-> "notfound", tbl |-> tbl]
  ELSE [err |-> "nil", tbl |-> [tbl EXCEPT ![id].confirmed = TRUE]]

\* ConfirmMessage: UPDATE messages SET confirmed = 1 WHERE id = ?
\* ErrMessageNotFound when no row matched (RowsAffected, MatchedCount).
ConfirmMessage(tbl, id, fail) ==
  IF fail THEN [err |-> "backend", tbl |-> tbl]
  ELSE IF id \notin DOMAIN tbl THEN [err |-> "notfound", tbl |-> tbl]
  ELSE [err |-> "nil", tbl |-> [tbl EXCEPT ![id].confirmed = TRUE]]

\* DeleteMessage without the test of the rows affected.
DeleteMessageSilent(tbl, id, fail) ==
  IF fail THEN [err |-> "backend", tbl |-> tbl]
  ELSE [err |-> "nil", tbl |-> [k \in (DOMAIN tbl) \ {id} |-> tbl[k]]]

\* DeleteMessage: DELETE FROM messages WHERE id = ?
\* ErrMessageNotFound when no row was deleted.
DeleteMessage(tbl, id, fail) ==
  IF fail THEN [err |-> "backend", tbl |-> tbl]
  ELSE IF id \notin DOMAIN tbl THEN [err |-> "notfound", tbl |-> tbl]
  ELSE [err |-> "nil", tbl |-> [k \in (DOMAIN tbl) \ {id} |-> tbl[k]]]

\* DeleteConfirmedMessages that deletes every record.
DeleteConfirmedMessagesAll(tbl, fail) ==
  IF fail THEN [err |-> "backend", tbl |-> tbl, count |-> 0]
  ELSE [err |-> "nil", tbl |-> [k \in {} |-> tbl[k]],
        count |-> Cardinality(DOMAIN tbl)]

\* DeleteConfirmedMessages: DELETE FROM messages WHERE confirmed = 1,
\* returning the rows affected.
DeleteConfirmedMessages(tbl, fail) ==
  IF fail THEN [err |-> "backend", tbl |-> tbl, count |-> 0]
  ELSE LET gone == {k \in DOMAIN tbl : tbl[k].confirmed}
       IN [err |-> "nil", tbl |-> [k \in (DOMAIN tbl) \ gone |-> tbl[k]],
           count |-> Cardinality(gone)]

(***************************************************************************)
(* internal/mqtt: Client.Publish.                                          *)
(***************************************************************************)
Publishers == {"p1"}

\* The Publish calls the model makes: (topic, qos, retained, payload).
PublishInputs ==
  { [topic |-> "t", qos |-> 1, retained |-> FALSE, payload |-> "object"],
    [topic |-> "t", qos |-> 2, retained |-> FALSE, payload |-> "func"] }

NoInput == [topic |-> "", qos |-> 0, retained |-> FALSE, payload |-> "string"]
\* What a call returned. Of a store operation: the id it was called with (or
\* assigned), its error and, for the purge, the count. Of Publish: its
\* arguments, the error it returned, the error of its StoreMessage call, the
\* number of records the call added to the table and the record added.
\* Of every call of the session: whether it called the transport (sent).
NoOp == [op |-> "none", id |-> NoID, err |-> "nil", count |-> 0,
         in |-> NoInput, stored |-> "none", added |-> 0, rec |-> NoRecord,
         sent |-> FALSE, given |-> [id |-> NoID, timestamp |-> ZeroTime],
         list |-> <<>>, args |-> [confirmed |-> FALSE, limit |-> 0]]
OpResult(op, id, err, count) ==
  [NoOp EXCEPT !.op = op, !.id = id, !.err = err, !.count = count]
Returned(in, err, sent) ==
  [NoOp EXCEPT !.op = "Publish", !.in = in, !.err = err, !.sent = sent]

\* The payload handed to the transport: text and bytes as they are, primitive
\* values formatted, anything else JSON-encoded (which may fail).
FinalPayload(kind) ==
  CASE kind \in {"string", "bytes"} -> [err |-> FALSE, form |-> kind]
    [] kind = "number"              -> [err |-> FALSE, form |-> "string"]
    [] kind = "func"                -> [err |-> TRUE,  form |-> ""]
    [] OTHER                        -> [err |-> FALSE, form |-> "bytes"]

\* DbMsg that records the message as already confirmed.
DbMsgConfirmed(in, t) ==
  [id |-> NoID, topic |-> in.topic, payload |-> in.payload, qos |-> in.qos,
   retained |-> in.retained, timestamp |-> t, confirmed |-> TRUE]

\* The record Publish builds for the outbox.
DbMsg(in, t) ==
  [id |-> NoID, topic |-> in.topic, payload |-> in.payload, qos |-> in.qos,
   retained |-> in.retained, timestamp |-> t, confirmed |-> FALSE]

\* The broker holds no subscription.
NoSubs == [t \in {} |-> 0]

InFlight == {p \in Publishers : ppc[p] \in {"wait", "store"}}

\* Publish, up to the call of the transport: fails at once when the session is
\* not connected or the payload cannot be encoded.
PublishCall(p, in) ==
  /\ ppc[p] = "idle"
  /\ oidCounter + Cardinality(InFlight) < MaxOid
  /\ IF ~connected \/ FinalPayload(in.payload).err
       THEN /\ lastOp' = Returned(in, "err", FALSE)
            /\ UNCHANGED <<ppc, pin>>
       ELSE /\ ppc' = [ppc EXCEPT ![p] = "wait"]
            /\ pin' = [pin EXCEPT ![p] = in]
            /\ UNCHANGED lastOp
  /\ UNCHANGED <<backend, dbAvail, now, oidCounter, messages, connected>>
  /\ UNCHANGED <<supVars, disVars, sesVars, matVars, regVars, metVars, authVars, rtVars, hdlVars, brkVars>>

\* token.Wait() returns: a transport error fails the call; on success the
\* call goes on to the outbox when one is configured.
PublishAck(p, ok) ==
  /\ ppc[p] = "wait"
  /\ IF ok /\ dbAvail
       THEN /\ ppc' = [ppc EXCEPT ![p] = "store"]
            /\ UNCHANGED <<pin, lastOp>>
       ELSE /\ ppc' = [ppc EXCEPT ![p] = "idle"]
            /\ pin' = [pin EXCEPT ![p] = NoInput]
            /\ lastOp' = Returned(pin[p], IF ok THEN "nil" ELSE "err", TRUE)
  /\ UNCHANGED <<backend, dbAvail, now, oidCounter, messages, connected>>
  /\ UNCHANGED <<supVars, disVars, sesVars, matVars, regVars, metVars, authVars, rtVars, hdlVars, brkVars>>

\* What Publish returns when StoreMessage returned storeErr, handed up.
PublishResultPropagated(storeErr) ==
  IF storeErr = "nil" THEN "nil" ELSE "err"

\* What Publish returns after a transport success, when StoreMessage returned
\* storeErr: the error is logged only.
PublishResult(storeErr) == "nil"

\* The StoreMessage call of Publish and its return: a store error is logged
\* and the call returns nil all the same.
PublishStore(p, fail) ==
  /\ ppc[p] = "store"
  /\ LET r == StoreMessage(messages, DbMsg(pin[p], now), backend, now,
                           oidCounter, fail)
     IN /\ messages' = r.tbl
        /\ oidCounter' = IF backend = "mongodb" THEN oidCounter + 1
                         ELSE oidCounter
        /\ lastOp' =
             [op |-> "Publish", id |-> r.id, err |-> PublishResult(r.err),
              count |-> 0,
              in |-> pin[p], stored |-> r.err,
              added |-> Cardinality(DOMAIN r.tbl) - Cardinality(DOMAIN messages),
              rec |-> IF r.id \in DOMAIN r.tbl /\ r.id \notin DOMAIN messages
                        THEN r.tbl[r.id] ELSE NoRecord,
              sent |-> TRUE,
              given |-> [id |-> NoID, timestamp |-> now],
              list |-> NoOp.list, args |-> NoOp.args]
  /\ ppc' = [ppc EXCEPT ![p] = "idle"]
  /\ pin' = [pin EXCEPT ![p] = NoInput]
  /\ UNCHANGED <<backend, dbAvail, now, connected>>
  /\ UNCHANGED <<supVars, disVars, sesVars, matVars, regVars, metVars, authVars, rtVars, hdlVars, brkVars>>

\* The transport connects the session, or loses the connection.
Connect ==
  /\ ~connected
  /\ connected' = TRUE
  /\ UNCHANGED <<backend, dbAvail, now, oidCounter, messages, lastOp,
                 ppc, pin>>
  /\ UNCHANGED <<supVars, disVars, sesVars, matVars, regVars, metVars, authVars, rtVars, hdlVars, brkVars>>

\* The broker ends a clean session with the connection and forgets its
\* subscriptions; a persistent session it keeps, unless it loses its own state.
ConnectionLost ==
  /\ connected
  /\ connected' = FALSE
  /\ \E drop \in BOOLEAN :
       /\ cleanSession => drop
       /\ transportSubs' = IF drop THEN NoSubs ELSE transportSubs
  /\ UNCHANGED <<backend, dbAvail, now, oidCounter, messages, lastOp,
                 ppc, pin>>
  /\ UNCHANGED <<cleanSession, subscriptions>>
  /\ UNCHANGED <<supVars, disVars, matVars, regVars, metVars, authVars, rtVars, hdlVars, brkVars>>

\* The wall clock advances.
Tick ==
  /\ now < MaxTime
  /\ now' = now + 1
  /\ UNCHANGED <<backend, dbAvail, oidCounter, messages, lastOp,
                 connected, ppc, pin>>
  /\ UNCHANGED <<supVars, disVars, sesVars, matVars, regVars, metVars, authVars, rtVars, hdlVars, brkVars>>

(***************************************************************************)
(* The store operations as the request handlers call them.                 *)
(***************************************************************************)
\* The record handed to StoreMessage directly: it carries an id of the
\* caller's and no timestamp.
StoreInputs ==
  { [id |-> "a", topic |-> "u", payload |-> "bytes", qos |-> 0,
     retained |-> TRUE, timestamp |-> ZeroTime, confirmed |-> FALSE] }

\* The records of the store on its own: with and without an id, with and
\* without a timestamp.
StoreInputsAll ==
  StoreInputs \cup
  { [id |-> NoID, topic |-> "v", payload |-> "object", qos |-> 1,
     retained |-> FALSE, timestamp |-> MaxTime, confirmed |-> FALSE] }

\* The ids the handlers are called with.
IdInputs == (DOMAIN messages) \cup {"a", "zz"}

Store(msg, fail) ==
  /\ dbAvail
  /\ msg.id = NoID => oidCounter + Cardinality(InFlight) < MaxOid
  /\ LET r == StoreMessage(messages, msg, backend, now, oidCounter, fail)
     IN /\ messages' = r.tbl
        /\ lastOp' = [OpResult("Store", r.id, r.err, 0) EXCEPT
                        !.stored = r.err,
                        !.in = [topic |-> msg.topic, payload |-> msg.payload,
                                qos |-> msg.qos, retained |-> msg.retained],
                        !.given = [id |-> msg.id,
                                   timestamp |-> msg.timestamp]]
  /\ oidCounter' = IF msg.id = NoID /\ backend = "mongodb"
                     THEN oidCounter + 1 ELSE oidCounter
  /\ UNCHANGED <<backend, dbAvail, now, connected, ppc, pin>>
  /\ UNCHANGED <<supVars, disVars, sesVars, matVars, regVars, metVars, authVars, rtVars, hdlVars, brkVars>>

GetByID(id) ==
  /\ dbAvail
  /\ LET r == GetMessageByID(messages, id, backend)
     IN lastOp' = [OpResult("GetByID", id, r.err, 0) EXCEPT !.rec = r.msg]
  /\ UNCHANGED <<backend, dbAvail, now, oidCounter, messages, connected, ppc,
                 pin>>
  /\ UNCHANGED <<supVars, disVars, sesVars, matVars, regVars, metVars, authVars, rtVars, hdlVars, brkVars>>

Confirm(id, fail) ==
  /\ dbAvail
  /\ LET r == ConfirmMessage(messages, id, fail)
     IN /\ messages' = r.tbl
        /\ lastOp' = [OpResult("Confirm", id, r.err, 0) EXCEPT
                        !.rec = IF id \in DOMAIN messages THEN messages[id]
                                ELSE NoRecord]
  /\ UNCHANGED <<backend, dbAvail, now, oidCounter, connected, ppc, pin>>
  /\ UNCHANGED <<supVars, disVars, sesVars, matVars, regVars, metVars, authVars, rtVars, hdlVars, brkVars>>

Delete(id, fail) ==
  /\ dbAvail
  /\ LET r == DeleteMessage(messages, id, fail)
     IN /\ messages' = r.tbl
        /\ lastOp' = OpResult("Delete", id, r.err, 0)
  /\ UNCHANGED <<backend, dbAvail, now, oidCounter, connected, ppc, pin>>
  /\ UNCHANGED <<supVars, disVars, sesVars, matVars, regVars, metVars, authVars, rtVars, hdlVars, brkVars>>

PurgeConfirmed(fail) ==
  /\ dbAvail
  /\ LET r == DeleteConfirmedMessages(messages, fail)
     IN /\ messages' = r.tbl
        /\ lastOp' = OpResult("Purge", NoID, r.err, r.count)
  /\ UNCHANGED <<backend, dbAvail, now, oidCounter, connected, ppc, pin>>
  /\ UNCHANGED <<supVars, disVars, sesVars, matVars, regVars, metVars, authVars, rtVars, hdlVars, brkVars>>

\* The limits of the GET /messages requests.
Limits == {-1, 0, 1, 2}

\* GET /messages?confirmed=..&limit=..: the ids of the records returned.
List(confirmed, limit, fail) ==
  /\ dbAvail
  /\ \E rows \in QueryRows(messages, confirmed, limit) :
       LET r == GetMessages(messages, rows, backend, fail)
       IN lastOp' = [OpResult("List", NoID, r.err, Len(r.list)) EXCEPT
                       !.list = r.list,
                       !.args = [confirmed |-> confirmed, limit |-> limit]]
  /\ UNCHANGED <<backend, dbAvail, now, oidCounter, messages, connected, ppc,
                 pin>>
  /\ UNCHANGED <<supVars, disVars, sesVars, matVars, regVars, metVars, authVars, rtVars, hdlVars, brkVars>>

EmptyTable == [k \in {} |-> NoRecord]

OutboxInit ==
  /\ backend \in Backends
  /\ dbAvail \in BOOLEAN
  /\ now = 1
  /\ oidCounter = 0
  /\ messages = EmptyTable
  /\ lastOp = NoOp
  /\ connected = FALSE
  /\ ppc = [p \in Publishers |-> "idle"]
  /\ pin = [p \in Publishers |-> NoInput]

OutboxNext ==
  \/ \E p \in Publishers, in \in PublishInputs : PublishCall(p, in)
  \/ \E p \in Publishers, ok \in BOOLEAN : PublishAck(p, ok)
  \/ \E p \in Publishers, fail \in BOOLEAN : PublishStore(p, fail)
  \/ Connect
  \/ ConnectionLost
  \/ Tick
  \/ \E msg \in StoreInputs, fail \in BOOLEAN : Store(msg, fail)
  \/ \E id \in IdInputs : GetByID(id)
  \/ \E id \in IdInputs, fail \in BOOLEAN : Confirm(id, fail)
  \/ \E id \in IdInputs, fail \in BOOLEAN : Delete(id, fail)
  \/ \E fail \in BOOLEAN : PurgeConfirmed(fail)

\* The store on its own: the operations of the Database interface on the
\* messages.
StoreNext ==
  \/ \E msg \in StoreInputsAll, fail \in BOOLEAN : Store(msg, fail)
  \/ \E id \in IdInputs : GetByID(id)
  \/ \E id \in IdInputs, fail \in BOOLEAN : Confirm(id, fail)
  \/ \E id \in IdInputs, fail \in BOOLEAN : Delete(id, fail)
  \/ \E fail \in BOOLEAN : PurgeConfirmed(fail)
  \/ \E confirmed \in BOOLEAN, limit \in Limits, fail \in BOOLEAN :
       List(confirmed, limit, fail)
  \/ Tick

(***************************************************************************)
(* internal/mqtt and internal/config: Manager.GetClient.                   *)
(***************************************************************************)
\* config.DefaultConnection
DefaultConnection == "x"

\* config.Brokers: "x" and "y" are complete, "nohost" lacks its host.
Brokers == {"x", "y", "nohost"}

\* The names GetClient is called with: the configured ones, the empty name
\* and a name with no configuration.
BrokerNames == Brokers \cup {"", "nocfg"}

Callers == {"g1", "g2"}

NoClient == 0

\* Config.GetBrokerConfig: the broker's configuration, or an error.
GetBrokerConfig(name) ==
  LET n == IF name = "" THEN DefaultConnection ELSE name
  IN IF n \in Brokers THEN [err |-> FALSE, cfg |-> n]
                      ELSE [err |-> TRUE, cfg |-> ""]

\* A Validate that accepts every configuration.
ValidateAny(cfg) == TRUE

\* BrokerConfig.Validate: host, port and client id are required.
Validate(cfg) == cfg # "nohost"

\* The fresh Client object createClient returns.
NewSession == Cardinality(sessions) + 1

\* GetClient is entered: an empty name is resolved to the default connection.
GetClientCall(g, name) ==
  /\ gpc[g] = "idle"
  /\ gpc' = [gpc EXCEPT ![g] = "lookup"]
  /\ garg' = [garg EXCEPT ![g] = name]
  /\ gname' = [gname EXCEPT ![g] =
                 IF name = "" THEN DefaultConnection ELSE name]
  /\ UNCHANGED <<clients, sessions, gclient, handed, lastGet>>
  /\ UNCHANGED <<outVars, disVars, sesVars, matVars, regVars, metVars, authVars, rtVars, hdlVars, brkVars>>

\* The lookup under the read lock: an existing session is returned, and
\* otherwise the call goes on, the lock released, to create one.
GetClientLookup(g) ==
  /\ gpc[g] = "lookup"
  /\ LET n == gname[g]
     IN IF clients[n] # NoClient
          THEN /\ gpc' = [gpc EXCEPT ![g] = "idle"]
               /\ handed' = handed \cup {<<n, clients[n]>>}
               /\ lastGet' = [arg |-> garg[g], name |-> n, id |-> clients[n],
                              err |-> FALSE]
          ELSE /\ gpc' = [gpc EXCEPT ![g] = "create"]
               /\ UNCHANGED <<handed, lastGet>>
  /\ UNCHANGED <<clients, sessions, garg, gname, gclient>>
  /\ UNCHANGED <<outVars, disVars, sesVars, matVars, regVars, metVars, authVars, rtVars, hdlVars, brkVars>>

\* GetBrokerConfig and createClient, under no lock: an unknown broker or an
\* invalid configuration returns the error, otherwise a new Client is built.
GetClientCreate(g) ==
  /\ gpc[g] = "create"
  /\ LET n == gname[g]
         r == GetBrokerConfig(n)
     IN IF r.err \/ ~Validate(r.cfg)
          THEN /\ gpc' = [gpc EXCEPT ![g] = "idle"]
               /\ lastGet' = [arg |-> garg[g], name |-> n, id |-> NoClient,
                              err |-> TRUE]
               /\ UNCHANGED <<sessions, gclient>>
          ELSE /\ gpc' = [gpc EXCEPT ![g] = "store"]
               /\ sessions' = sessions \cup {[id |-> NewSession, name |-> n]}
               /\ gclient' = [gclient EXCEPT ![g] = NewSession]
               /\ UNCHANGED lastGet
  /\ UNCHANGED <<clients, garg, gname, handed>>
  /\ UNCHANGED <<outVars, disVars, sesVars, matVars, regVars, metVars, authVars, rtVars, hdlVars, brkVars>>

\* The store under the write lock, and the return of the new session.
GetClientStore(g) ==
  /\ gpc[g] = "store"
  /\ clients' = [clients EXCEPT ![gname[g]] = gclient[g]]
  /\ handed' = handed \cup {<<gname[g], gclient[g]>>}
  /\ lastGet' = [arg |-> garg[g], name |-> gname[g], id |-> gclient[g],
                 err |-> FALSE]
  /\ gpc' = [gpc EXCEPT ![g] = "idle"]
  /\ gclient' = [gclient EXCEPT ![g] = NoClient]
  /\ UNCHANGED <<sessions, garg, gname>>
  /\ UNCHANGED <<outVars, disVars, sesVars, matVars, regVars, metVars, authVars, rtVars, hdlVars, brkVars>>

\* NewManager: an empty session map.
SupervisorInit ==
  /\ clients = [n \in BrokerNames |-> NoClient]
  /\ sessions = {}
  /\ gpc = [g \in Callers |-> "idle"]
  /\ garg = [g \in Callers |-> ""]
  /\ gname = [g \in Callers |-> ""]
  /\ gclient = [g \in Callers |-> NoClient]
  /\ handed = {}
  /\ lastGet = [arg |-> "", name |-> "", id |-> NoClient, err |-> FALSE]

SupervisorNext ==
  \/ \E g \in Callers, name \in BrokerNames : GetClientCall(g, name)
  \/ \E g \in Callers : GetClientLookup(g)
  \/ \E g \in Callers : GetClientCreate(g)
  \/ \E g \in Callers : GetClientStore(g)

(***************************************************************************)
(* internal/api, internal/models, internal/utils: the webhook dispatch.    *)
(* A topic and a topic filter are the sequences of their characters.       *)
(***************************************************************************)
\* strings.Split(str, "/"): the levels of a topic or filter.
RECURSIVE Split(_)
Split(str) ==
  IF \A i \in DOMAIN str : str[i] # "/" THEN <<str>>
  ELSE LET i == CHOOSE k \in DOMAIN str :
                  str[k] = "/" /\ \A j \in 1..(k - 1) : str[j] # "/"
       IN <<SubSeq(str, 1, i - 1)>> \o Split(SubSeq(str, i + 1, Len(str)))

\* strings.HasSuffix(str, c) for a suffix c of one character.
HasSuffix(str, c) == Len(str) > 0 /\ str[Len(str)] = c

\* utils.TopicMatchesFilter. A string is the sequence of its characters.
TopicMatchesFilter(topic, filter) ==
  LET topicLevels == Split(topic)
      allLevels == Split(filter)
      hash == HasSuffix(filter, "#")
      filterLevels == IF hash THEN SubSeq(allLevels, 1, Len(allLevels) - 1)
                              ELSE allLevels
  IN /\ IF hash THEN Len(topicLevels) >= Len(filterLevels)
                ELSE Len(topicLevels) = Len(filterLevels)
     /\ \A i \in 1..Len(filterLevels) :
          filterLevels[i] = <<"+">> \/ filterLevels[i] = topicLevels[i]

\* The topics and the filters of the calls of TopicMatchesFilter on its own.
Strings(alphabet, n) == UNION {[1..k -> alphabet] : k \in 0..n}
MatchTopics == Strings({"a", "b", "/"}, MaxTopicLen)
MatchFilters == Strings({"a", "/", "+", "#"}, MaxFilterLen)

\* The call TopicMatchesFilter(mtopic, mfilter) returns.
CallTopicMatchesFilter ==
  /\ ~mdone
  /\ mdone' = TRUE
  /\ matched' = TopicMatchesFilter(mtopic, mfilter)
  /\ UNCHANGED <<mtopic, mfilter>>
  /\ UNCHANGED <<outVars, supVars, disVars, sesVars, regVars, metVars, authVars, rtVars, hdlVars, brkVars>>

MatchInit ==
  /\ mtopic \in MatchTopics
  /\ mfilter \in MatchFilters
  /\ mdone = FALSE
  /\ matched = FALSE

MatchNext == CallTopicMatchesFilter

\* GetWebhooksByTopicFilter without the enabled test of its query.
GetWebhooksByTopicFilterAll(tbl, topic) ==
  LET Match(w) == TopicMatchesFilter(topic, w.topicFilter)
  IN SelectSeq(tbl, Match)

\* GetWebhooksByTopicFilter without the topic test on the rows read.
GetWebhooksByTopicFilterEnabled(tbl, topic) ==
  LET Match(w) == w.enabled
  IN SelectSeq(tbl, Match)

\* Database.GetWebhooksByTopicFilter: the enabled webhooks whose filter
\* matches, in the order of the table.
GetWebhooksByTopicFilter(tbl, topic) ==
  LET Match(w) == w.enabled /\ TopicMatchesFilter(topic, w.topicFilter)
  IN SelectSeq(tbl, Match)

\* A nil or empty map[string]string.
NoHeaders == [k \in {} |-> ""]

\* The webhooks table of the model: every definition passed Webhook.Validate
\* (URL, method and topic filter not empty, retry count not negative).
StoredWebhooks ==
  << [id |-> "w3", url |-> "http://h3", method |-> "NO GOOD",
      topicFilter |-> <<"+", "/", "b">>, enabled |-> TRUE,
      headers |-> NoHeaders, retryCount |-> 0],
     [id |-> "w4", url |-> "http://h4", method |-> "POST",
      topicFilter |-> <<"a", "/", "c">>, enabled |-> TRUE,
      headers |-> NoHeaders, retryCount |-> 0],
     [id |-> "w2", url |-> "http://h2", method |-> "PUT",
      topicFilter |-> <<"a", "/", "b">>, enabled |-> TRUE,
      headers |-> [k \in {"content-type", "User-Agent"} |->
                     IF k = "content-type" THEN "text/plain" ELSE "curl"],
      retryCount |-> 0],
     [id |-> "w1", url |-> "http://h1", method |-> "POST",
      topicFilter |-> <<"a", "/", "#">>, enabled |-> TRUE,
      headers |-> [k \in {"X-Token"} |-> "s"], retryCount |-> 1],
     [id |-> "w0", url |-> "http://h0", method |-> "POST",
      topicFilter |-> <<"#">>, enabled |-> FALSE,
      headers |-> NoHeaders, retryCount |-> 0] >>

\* config.Webhook as LoadConfig leaves it: method POST and 3 retries by
\* default; WEBHOOK_ENABLED decides whether the global target is used.
GlobalWebhook(enabled) ==
  [enabled |-> enabled, url |-> "http://g", method |-> "POST", retryCount |-> 3]

TargetURLs ==
  {"http://g", "http://h0", "http://h1", "http://h2", "http://h3", "http://h4"}

\* The topics of the inbound messages: one subscription stream.
Topics == {<<"a", "/", "b">>}

\* The arguments sendWebhookNotification passes to
\* sendWebhookNotificationToURL, for the global target and for a webhook.
GlobalTarget ==
  [url |-> webhookConfig.url, method |-> webhookConfig.method,
   headers |-> NoHeaders, retryCount |-> webhookConfig.retryCount]

WebhookTarget(w) ==
  [url |-> w.url, method |-> w.method, headers |-> w.headers,
   retryCount |-> w.retryCount]

\* http.NewRequest fails on a method that is no token and on a URL that does
\* not parse.
ValidMethod(method) == method \notin {"NO GOOD"}
ParsableURL(url) == url \notin {"http://[h"}
NewRequestErr(method, url) == ~ValidMethod(method) \/ ~ParsableURL(url)

\* http.Header.Set files a value under the canonical form of its key.
CanonicalHeaderKey(k) == IF k = "content-type" THEN "Content-Type" ELSE k

\* The two headers sendWebhookNotificationToURL sets first.
ReservedHeaders ==
  [k \in {"Content-Type", "User-Agent"} |->
     IF k = "Content-Type" THEN "application/json" ELSE "MQTT-Microservice"]

\* The header maps the request can end with: the reserved headers are set,
\* then every custom header in the order the map yields them, so that of
\* several custom keys with one canonical form any may be the last.
RequestHeaders(headers) ==
  LET keys == DOMAIN ReservedHeaders \cup
                {CanonicalHeaderKey(k) : k \in DOMAIN headers}
      values == {ReservedHeaders[k] : k \in DOMAIN ReservedHeaders} \cup
                  {headers[k] : k \in DOMAIN headers}
      custom(K) == {headers[k] :
                      k \in {c \in DOMAIN headers : CanonicalHeaderKey(c) = K}}
  IN {h \in [keys -> values] :
        \A K \in keys : IF custom(K) # {} THEN h[K] \in custom(K)
                                          ELSE h[K] = ReservedHeaders[K]}

NoRequest == [url |-> "", method |-> "", header |-> NoHeaders]

\* A dispatch goroutine: pc is its place in sendWebhookNotification and
\* sendWebhookNotificationToURL; found is the slice the registry returned and
\* k the index of the range loop; attempts counts the client.Do calls of the
\* current delivery that have returned and last tells how the latest ended
\* ("2xx", or "failed" for another status or a transport error);
\* consumed tells whether the request body has been read; during tells
\* whether, when the handler started this goroutine, an earlier one was
\* inside client.Do or in a retry sleep.
NoTask ==
  [pc |-> "none", topic |-> <<>>, global |-> FALSE, found |-> <<>>, k |-> 0,
   req |-> NoRequest, attempts |-> 0, last |-> "", outcome |-> "",
   consumed |-> FALSE, during |-> FALSE]

Tasks == 1..MaxMessages

\* The target of the delivery a task is in.
Cur(t) == IF t.global THEN GlobalTarget ELSE WebhookTarget(t.found[t.k])

\* The ends of a client.Do call: a 2xx status, another status, a transport
\* error before anything was written ("refused") or after the request was
\* written ("timeout"). Once the body buffer has been read, the transport
\* has no body left to write and the call ends in the error "short".
Outcomes(consumed) ==
  IF consumed THEN {"short", "refused"}
              ELSE {"2xx", "status", "refused", "timeout"}

\* A retry loop that allows one attempt more: i <= retryCount + 1.
MoreAttemptsOneExtra(i, retryCount) == i <= retryCount + 1

\* The condition of the retry loop: for i := 0; i <= retryCount; i++
MoreAttempts(i, retryCount) == i <= retryCount

\* A handler that calls sendWebhookNotification itself, instead of starting
\* a goroutine: it runs only when every earlier dispatch has ended.
messageHandlerInline(topic) ==
  /\ received < MaxMessages
  /\ \A j \in 1..received : task[j].pc = "done"
  /\ received' = received + 1
  /\ task' = [task EXCEPT ![received + 1] =
                [NoTask EXCEPT !.pc = "start", !.topic = topic,
                               !.during = \E j \in 1..received :
                                            task[j].pc \in {"wait", "sleep"}]]
  /\ UNCHANGED <<webhooks, webhookConfig, firstOrder>>
  /\ UNCHANGED <<outVars, supVars, sesVars, matVars, regVars, metVars, authVars, rtVars, hdlVars, brkVars>>

\* messageHandler: the message is logged and counted, its payload parsed and
\* the dispatch started as a goroutine; the handler returns.
messageHandler(topic) ==
  /\ received < MaxMessages
  /\ received' = received + 1
  /\ task' = [task EXCEPT ![received + 1] =
                [NoTask EXCEPT !.pc = "start", !.topic = topic,
                               !.during = \E j \in 1..received :
                                            task[j].pc \in {"wait", "sleep"}]]
  /\ UNCHANGED <<webhooks, webhookConfig, firstOrder>>
  /\ UNCHANGED <<outVars, supVars, sesVars, matVars, regVars, metVars, authVars, rtVars, hdlVars, brkVars>>

\* sendWebhookNotification begins: the global target comes first, when it is
\* enabled and has a URL.
StartDispatch(m) ==
  /\ task[m].pc = "start"
  /\ task' = [task EXCEPT ![m] =
                IF webhookConfig.enabled /\ webhookConfig.url # ""
                  THEN [@ EXCEPT !.pc = "build", !.global = TRUE]
                  ELSE [@ EXCEPT !.pc = "lookup"]]
  /\ UNCHANGED <<webhooks, webhookConfig, received, firstOrder>>
  /\ UNCHANGED <<outVars, supVars, sesVars, matVars, regVars, metVars, authVars, rtVars, hdlVars, brkVars>>

\* The registry lookup: without a database, and when the lookup fails, the
\* dispatch ends; otherwise the range loop starts on the webhooks found.
LookupWebhooks(m, fail) ==
  /\ task[m].pc = "lookup"
  /\ fail => dbAvail
  /\ LET found == GetWebhooksByTopicFilter(webhooks, task[m].topic)
     IN task' = [task EXCEPT ![m] =
                   IF ~dbAvail \/ fail \/ found = <<>>
                     THEN [@ EXCEPT !.pc = "done"]
                     ELSE [@ EXCEPT !.pc = "build", !.found = found, !.k = 1]]
  /\ UNCHANGED <<webhooks, webhookConfig, received, firstOrder>>
  /\ UNCHANGED <<outVars, supVars, sesVars, matVars, regVars, metVars, authVars, rtVars, hdlVars, brkVars>>

\* The body of the range loop, and sendWebhookNotificationToURL up to the
\* retry loop: a webhook found that is not enabled is passed over; the
\* envelope is encoded and the request created (the delivery returns when
\* that fails), then the headers are set.
BuildRequest(m) ==
  /\ task[m].pc = "build"
  /\ LET tg == Cur(task[m])
     IN IF ~task[m].global /\ ~task[m].found[task[m].k].enabled
          THEN task' = [task EXCEPT ![m] =
                          [@ EXCEPT !.pc = "returned", !.outcome = "skipped",
                                    !.req = NoRequest, !.attempts = 0,
                                    !.last = "", !.consumed = FALSE]]
        ELSE IF NewRequestErr(tg.method, tg.url)
          THEN task' = [task EXCEPT ![m] =
                          [@ EXCEPT !.pc = "returned", !.outcome = "norequest",
                                    !.req = NoRequest, !.attempts = 0,
                                    !.last = "", !.consumed = FALSE]]
          ELSE \E h \in RequestHeaders(tg.headers) :
                 task' = [task EXCEPT ![m] =
                            [@ EXCEPT !.pc = "send", !.outcome = "",
                                      !.req = [url |-> tg.url,
                                               method |-> tg.method,
                                               header |-> h],
                                      !.attempts = 0, !.last = "",
                                      !.consumed = FALSE]]
  /\ UNCHANGED <<webhooks, webhookConfig, received, firstOrder>>
  /\ UNCHANGED <<outVars, supVars, sesVars, matVars, regVars, metVars, authVars, rtVars, hdlVars, brkVars>>

\* client.Do is called, at once for the first attempt and after
\* time.Sleep(retryDelay) for a retry: the request is issued.
Do(m) ==
  /\ task[m].pc \in {"send", "sleep"}
  /\ task' = [task EXCEPT ![m].pc = "wait"]
  /\ firstOrder' = IF task[m].attempts = 0
                     THEN [firstOrder EXCEPT ![task[m].req.url] = Append(@, m)]
                     ELSE firstOrder
  /\ UNCHANGED <<webhooks, webhookConfig, received>>
  /\ UNCHANGED <<outVars, supVars, sesVars, matVars, regVars, metVars, authVars, rtVars, hdlVars, brkVars>>

\* client.Do returns: a 2xx status ends the delivery with success; otherwise
\* the loop goes on while its condition holds, and the delivery ends with the
\* failure logged when it does not.
DoReturns(m, end) ==
  /\ task[m].pc = "wait"
  /\ end \in Outcomes(task[m].consumed)
  /\ LET t == [task[m] EXCEPT
                  !.attempts = @ + 1,
                  !.last = IF end = "2xx" THEN "2xx" ELSE "failed",
                  !.consumed = @ \/ end \in {"2xx", "status", "timeout"}]
     IN task' = [task EXCEPT ![m] =
          IF end = "2xx"
            THEN [t EXCEPT !.pc = "returned", !.outcome = "success"]
            ELSE IF MoreAttempts(t.attempts, Cur(t).retryCount)
              THEN [t EXCEPT !.pc = "sleep"]
              ELSE [t EXCEPT !.pc = "returned", !.outcome = "failed"]]
  /\ UNCHANGED <<webhooks, webhookConfig, received, firstOrder>>
  /\ UNCHANGED <<outVars, supVars, sesVars, matVars, regVars, metVars, authVars, rtVars, hdlVars, brkVars>>

\* sendWebhookNotificationToURL has returned: after the global target comes
\* the registry lookup, after a webhook the next one of the range loop.
NextTarget(m) ==
  /\ task[m].pc = "returned"
  /\ task' = [task EXCEPT ![m] =
       LET t == [@ EXCEPT !.req = NoRequest, !.attempts = 0, !.last = "",
                          !.outcome = "", !.consumed = FALSE]
       IN IF t.global THEN [t EXCEPT !.pc = "lookup", !.global = FALSE]
          ELSE IF t.k < Len(t.found) THEN [t EXCEPT !.pc = "build", !.k = @ + 1]
          ELSE [t EXCEPT !.pc = "done"]]
  /\ UNCHANGED <<webhooks, webhookConfig, received, firstOrder>>
  /\ UNCHANGED <<outVars, supVars, sesVars, matVars, regVars, metVars, authVars, rtVars, hdlVars, brkVars>>

DispatchInit ==
  /\ webhooks = StoredWebhooks
  /\ webhookConfig \in {GlobalWebhook(e) : e \in BOOLEAN}
  /\ received = 0
  /\ task = [m \in Tasks |-> NoTask]
  /\ firstOrder = [u \in TargetURLs |-> <<>>]

DispatchNext ==
  \/ \E topic \in Topics : messageHandler(topic)
  \/ \E m \in Tasks : StartDispatch(m)
  \/ \E m \in Tasks, fail \in BOOLEAN : LookupWebhooks(m, fail)
  \/ \E m \in Tasks : BuildRequest(m)
  \/ \E m \in Tasks : Do(m)
  \/ \E m \in Tasks, end \in Outcomes(FALSE) \cup Outcomes(TRUE) :
       DoReturns(m, end)
  \/ \E m \in Tasks : NextTarget(m)

(***************************************************************************)
(* internal/models, internal/api, internal/database: the webhook registry. *)
(***************************************************************************)
\* The fields of a WebhookRequest the model follows, and the zero value a
\* JSON body leaves in a field it does not name.
RequestFields ==
  {"url", "method", "topic_filter", "enabled", "timeout", "retry_count",
   "retry_delay"}
ZeroValue(f) ==
  IF f \in {"url", "method"} THEN ""
  ELSE IF f = "topic_filter" THEN <<>>
  ELSE IF f = "enabled" THEN FALSE
  ELSE 0

\* json.NewDecoder(r.Body).Decode(&req): a body is a function from the
\* fields it names to their values.
DecodeRequest(body) ==
  [f \in RequestFields |-> IF f \in DOMAIN body THEN body[f] ELSE ZeroValue(f)]

\* models.NewWebhook: the defaults.
NewWebhook ==
  [id |-> NoID, url |-> "", method |-> "POST", topicFilter |-> <<>>,
   enabled |-> TRUE, timeout |-> 10, retryCount |-> 3, retryDelay |-> 5]

\* No definition.
NoWebhook ==
  [id |-> NoID, url |-> "", method |-> "", topicFilter |-> <<>>,
   enabled |-> FALSE, timeout |-> 0, retryCount |-> 0, retryDelay |-> 0]

\* Webhook.Validate without the test of the retry delay.
WebhookValidateNoDelay(w) ==
  /\ w.url # ""
  /\ w.method # ""
  /\ w.topicFilter # <<>>
  /\ w.timeout > 0
  /\ w.retryCount >= 0

\* Webhook.Validate: nil (TRUE) or a ValidationError (FALSE).
WebhookValidate(w) ==
  /\ w.url # ""
  /\ w.method # ""
  /\ w.topicFilter # <<>>
  /\ w.timeout > 0
  /\ w.retryCount >= 0
  /\ w.retryDelay > 0

\* handleCreateWebhook: the webhook built from NewWebhook and the request.
\* Every followed field is assigned from the request.
CreatedWebhook(req) ==
  [NewWebhook EXCEPT !.url = req["url"], !.method = req["method"],
                     !.topicFilter = req["topic_filter"],
                     !.enabled = req["enabled"],
                     !.timeout = req["timeout"],
                     !.retryCount = req["retry_count"],
                     !.retryDelay = req["retry_delay"]]

\* handleUpdateWebhook: the stored webhook with the request merged in.
UpdatedWebhook(w, req) ==
  [w EXCEPT !.url = IF req["url"] # "" THEN req["url"] ELSE @,
            !.method = IF req["method"] # "" THEN req["method"] ELSE @,
            !.topicFilter = IF req["topic_filter"] # <<>>
                              THEN req["topic_filter"] ELSE @,
            !.enabled = req["enabled"],
            !.timeout = IF req["timeout"] > 0 THEN req["timeout"] ELSE @,
            !.retryCount = IF req["retry_count"] >= 0
                             THEN req["retry_count"] ELSE @,
            !.retryDelay = IF req["retry_delay"] > 0
                             THEN req["retry_delay"] ELSE @]

\* The ids of the definitions of a table, and the place of an id in it.
WebhookIds(tbl) == {tbl[i].id : i \in DOMAIN tbl}
IndexOf(tbl, id) == CHOOSE i \in DOMAIN tbl : tbl[i].id = id

\* StoreWebhook: assigns an id when absent and inserts; the insert fails on
\* a backend error and on a duplicate primary key.
StoreWebhook(tbl, w, b, t, c, fail) ==
  LET id == IF w.id = NoID THEN NewID(b, t, c) ELSE w.id
  IN IF fail \/ id \in WebhookIds(tbl)
       THEN [err |-> "insert", tbl |-> tbl, id |-> id]
       ELSE [err |-> "nil", tbl |-> Append(tbl, [w EXCEPT !.id = id]),
             id |-> id]

\* GetWebhookByID: the definition or ErrMessageNotFound.
GetWebhookByID(tbl, id) ==
  IF id \in WebhookIds(tbl)
    THEN [err |-> "nil", webhook |-> tbl[IndexOf(tbl, id)]]
    ELSE [err |-> "notfound", webhook |-> NoWebhook]

\* UpdateWebhook: UPDATE webhooks SET ... WHERE id = ?
UpdateWebhook(tbl, w, fail) ==
  IF fail THEN [err |-> "backend", tbl |-> tbl]
  ELSE IF w.id \notin WebhookIds(tbl) THEN [err |-> "notfound", tbl |-> tbl]
  ELSE [err |-> "nil", tbl |-> [tbl EXCEPT ![IndexOf(tbl, w.id)] = w]]

\* DeleteWebhook: DELETE FROM webhooks WHERE id = ?
DeleteWebhook(tbl, id, fail) ==
  IF fail THEN [err |-> "backend", tbl |-> tbl]
  ELSE IF id \notin WebhookIds(tbl) THEN [err |-> "notfound", tbl |-> tbl]
  ELSE [err |-> "nil",
        tbl |-> SelectSeq(tbl, LAMBDA w : w.id # id)]

\* The topic filters and the request bodies of the model.
FilterAHash == <<"a", "/", "#">>
FilterAB == <<"a", "/", "b">>
WebhookBodies ==
  { \* everything given
    [f \in RequestFields |->
       IF f = "url" THEN "http://h"
       ELSE IF f = "method" THEN "PUT"
       ELSE IF f = "topic_filter" THEN FilterAHash
       ELSE IF f = "enabled" THEN TRUE
       ELSE IF f = "timeout" THEN 7
       ELSE IF f = "retry_count" THEN 0
       ELSE 4],
    [f \in RequestFields |->
       IF f = "url" THEN "http://k"
       ELSE IF f = "method" THEN "PUT"
       ELSE IF f = "topic_filter" THEN FilterAB
       ELSE IF f = "enabled" THEN TRUE
       ELSE IF f = "timeout" THEN 7
       ELSE IF f = "retry_count" THEN 2
       ELSE 4],
    \* URL and topic filter only
    [f \in {"url", "topic_filter"} |->
       IF f = "url" THEN "http://h" ELSE FilterAB],
    \* no URL
    [f \in {"method", "topic_filter", "timeout", "retry_delay"} |->
       IF f = "method" THEN "PUT"
       ELSE IF f = "topic_filter" THEN FilterAB
       ELSE IF f = "timeout" THEN 7 ELSE 4],
    \* everything but the retry delay
    [f \in RequestFields \ {"retry_delay"} |->
       IF f = "url" THEN "http://h"
       ELSE IF f = "method" THEN "PUT"
       ELSE IF f = "topic_filter" THEN FilterAB
       ELSE IF f = "enabled" THEN TRUE
       ELSE IF f = "timeout" THEN 7
       ELSE 1],
    \* a negative retry delay, nothing else
    [f \in {"retry_delay", "retry_count"} |-> -1],
    \* a switch-off
    [f \in {"enabled"} |-> FALSE] }

\* What a registry request answered: the handler, the HTTP status, the id,
\* the decoded request, the definition persisted (NoWebhook when none), and
\* for a lookup the topic and the definitions returned.
NoReg ==
  [op |-> "none", status |-> 0, id |-> NoID, req |-> DecodeRequest(<<>>),
   stored |-> NoWebhook, topic |-> <<>>, found |-> <<>>]

\* POST /webhooks
handleCreateWebhook(body, fail) ==
  /\ dbAvail
  /\ Len(registry) < MaxWebhooks
  /\ backend = "mongodb" => oidCounter < MaxOid
  /\ LET req == DecodeRequest(body)
         webhook == CreatedWebhook(req)
         r == StoreWebhook(registry, webhook, backend, now, oidCounter, fail)
         said == [NoReg EXCEPT !.op = "Create", !.req = req]
     IN IF req["url"] = "" \/ req["topic_filter"] = <<>>
             \/ ~WebhookValidate(webhook)
          THEN /\ lastReg' = [said EXCEPT !.status = 400]
               /\ UNCHANGED <<registry, oidCounter>>
          ELSE /\ registry' = r.tbl
               /\ oidCounter' = IF backend = "mongodb" THEN oidCounter + 1
                                ELSE oidCounter
               /\ lastReg' =
                    IF r.err # "nil" THEN [said EXCEPT !.status = 500]
                    ELSE [said EXCEPT !.status = 201, !.id = r.id,
                                      !.stored = [webhook EXCEPT !.id = r.id]]
  /\ UNCHANGED <<backend, dbAvail, now, messages, lastOp, connected, ppc, pin>>
  /\ UNCHANGED <<supVars, disVars, sesVars, matVars, metVars, authVars, rtVars, hdlVars, brkVars>>

\* GET /webhooks/{id}
handleGetWebhook(id, fail) ==
  /\ dbAvail
  /\ LET got == GetWebhookByID(registry, id)
         said == [NoReg EXCEPT !.op = "Get", !.id = id]
     IN lastReg' = IF fail \/ got.err # "nil"
                     THEN [said EXCEPT !.status = 500]
                     ELSE [said EXCEPT !.status = 200]
  /\ UNCHANGED registry
  /\ UNCHANGED outVars
  /\ UNCHANGED <<supVars, disVars, sesVars, matVars, metVars, authVars, rtVars, hdlVars, brkVars>>

\* PUT /webhooks/{id}
handleUpdateWebhook(id, body, fail) ==
  /\ dbAvail
  /\ LET req == DecodeRequest(body)
         got == GetWebhookByID(registry, id)
         webhook == UpdatedWebhook(got.webhook, req)
         r == UpdateWebhook(registry, webhook, fail)
         said == [NoReg EXCEPT !.op = "Update", !.req = req, !.id = id]
     IN IF got.err # "nil"
          THEN /\ lastReg' = [said EXCEPT !.status = 500]
               /\ UNCHANGED registry
          ELSE IF ~WebhookValidate(webhook)
            THEN /\ lastReg' = [said EXCEPT !.status = 400]
                 /\ UNCHANGED registry
            ELSE /\ registry' = r.tbl
                 /\ lastReg' =
                      IF r.err # "nil" THEN [said EXCEPT !.status = 500]
                      ELSE [said EXCEPT !.status = 200, !.stored = webhook]
  /\ UNCHANGED outVars
  /\ UNCHANGED <<supVars, disVars, sesVars, matVars, metVars, authVars, rtVars, hdlVars, brkVars>>

\* DELETE /webhooks/{id}
handleDeleteWebhook(id, fail) ==
  /\ dbAvail
  /\ LET r == DeleteWebhook(registry, id, fail)
     IN /\ registry' = r.tbl
        /\ lastReg' = [NoReg EXCEPT !.op = "Delete", !.id = id,
                         !.status = IF r.err = "nil" THEN 200 ELSE 500]
  /\ UNCHANGED outVars
  /\ UNCHANGED <<supVars, disVars, sesVars, matVars, metVars, authVars, rtVars, hdlVars, brkVars>>

\* The topics the registry is asked about.
LookupTopics ==
  { <<"a", "/", "b", "/", "c">>, <<"a", "/", "b">>, <<"b">> }

\* db.GetWebhooksByTopicFilter(ctx, topic), as the dispatch calls it.
CallGetWebhooksByTopicFilter(topic, fail) ==
  /\ dbAvail
  /\ lastReg' =
       IF fail THEN [NoReg EXCEPT !.op = "GetMatching", !.topic = topic,
                                  !.status = 500]
       ELSE [NoReg EXCEPT !.op = "GetMatching", !.topic = topic,
                          !.status = 200,
                          !.found = GetWebhooksByTopicFilter(registry, topic)]
  /\ UNCHANGED registry
  /\ UNCHANGED outVars
  /\ UNCHANGED <<supVars, disVars, sesVars, matVars, metVars, authVars, rtVars, hdlVars, brkVars>>

\* The ids of the requests: those of the table and one of no definition.
WebhookIdInputs == WebhookIds(registry) \cup {"zz"}

\* A new database: no definition.
RegistryInit ==
  /\ registry = <<>>
  /\ lastReg = NoReg

RegistryNext ==
  \/ \E body \in WebhookBodies, fail \in BOOLEAN :
       handleCreateWebhook(body, fail)
  \/ \E id \in WebhookIdInputs, body \in WebhookBodies, fail \in BOOLEAN :
       handleUpdateWebhook(id, body, fail)
  \/ \E id \in WebhookIdInputs, fail \in BOOLEAN : handleDeleteWebhook(id, fail)
  \/ \E topic \in LookupTopics, fail \in BOOLEAN :
       CallGetWebhooksByTopicFilter(topic, fail)
  \/ Tick

\* The registry with the request that reads one definition.
WebhookRequestsNext ==
  \/ \E body \in WebhookBodies, fail \in BOOLEAN :
       handleCreateWebhook(body, fail)
  \/ \E id \in WebhookIdInputs, fail \in BOOLEAN : handleGetWebhook(id, fail)
  \/ \E id \in WebhookIdInputs, body \in WebhookBodies, fail \in BOOLEAN :
       handleUpdateWebhook(id, body, fail)
  \/ \E id \in WebhookIdInputs, fail \in BOOLEAN : handleDeleteWebhook(id, fail)
  \/ Tick

(***************************************************************************)
(* internal/mqtt: Client.Subscribe, Client.Unsubscribe, ResubscribeAll.    *)
(***************************************************************************)
SubTopics == {"s1", "s2"}
QoSLevels == {0, 1}

SessionResult(op, topic, err, sent) ==
  [NoOp EXCEPT !.op = op, !.id = topic, !.err = err, !.sent = sent]

\* Subscribe without the IsConnected check.
SubscribeUnchecked(topic, qos, ok) ==
  /\ IF ~ok \/ ~connected
       THEN /\ lastOp' = SessionResult("Subscribe", topic, "err", TRUE)
            /\ UNCHANGED <<subscriptions, transportSubs>>
       ELSE /\ lastOp' = SessionResult("Subscribe", topic, "nil", TRUE)
            /\ transportSubs' =
                 [t \in (DOMAIN transportSubs) \cup {topic} |->
                    IF t = topic THEN qos ELSE transportSubs[t]]
            /\ subscriptions' = subscriptions \cup {topic}
  /\ UNCHANGED <<backend, dbAvail, now, oidCounter, messages, connected,
                 ppc, pin, cleanSession>>
  /\ UNCHANGED <<supVars, disVars, matVars, regVars, metVars, authVars, rtVars, hdlVars, brkVars>>

\* Subscribe: an error at once when the session is not connected; otherwise
\* the transport is asked, and on its success the topic is tracked.
Subscribe(topic, qos, ok) ==
  /\ IF ~connected
       THEN /\ lastOp' = SessionResult("Subscribe", topic, "err", FALSE)
            /\ UNCHANGED <<subscriptions, transportSubs>>
       ELSE IF ~ok
         THEN /\ lastOp' = SessionResult("Subscribe", topic, "err", TRUE)
              /\ UNCHANGED <<subscriptions, transportSubs>>
         ELSE /\ lastOp' = SessionResult("Subscribe", topic, "nil", TRUE)
              /\ transportSubs' =
                   [t \in (DOMAIN transportSubs) \cup {topic} |->
                      IF t = topic THEN qos ELSE transportSubs[t]]
              /\ subscriptions' = subscriptions \cup {topic}
  /\ UNCHANGED <<backend, dbAvail, now, oidCounter, messages, connected,
                 ppc, pin, cleanSession>>
  /\ UNCHANGED <<supVars, disVars, matVars, regVars, metVars, authVars, rtVars, hdlVars, brkVars>>

\* Unsubscribe that forgets the topic before the transport has answered.
UnsubscribeEager(topic, ok) ==
  /\ IF ~connected
       THEN /\ lastOp' = SessionResult("Unsubscribe", topic, "err", FALSE)
            /\ UNCHANGED <<subscriptions, transportSubs>>
       ELSE IF ~ok
         THEN /\ lastOp' = SessionResult("Unsubscribe", topic, "err", TRUE)
              /\ subscriptions' = subscriptions \ {topic}
              /\ UNCHANGED transportSubs
         ELSE /\ lastOp' = SessionResult("Unsubscribe", topic, "nil", TRUE)
              /\ transportSubs' =
                   [t \in (DOMAIN transportSubs) \ {topic} |-> transportSubs[t]]
              /\ subscriptions' = subscriptions \ {topic}
  /\ UNCHANGED <<backend, dbAvail, now, oidCounter, messages, connected,
                 ppc, pin, cleanSession>>
  /\ UNCHANGED <<supVars, disVars, matVars, regVars, metVars, authVars, rtVars, hdlVars, brkVars>>

\* Unsubscribe: an error at once when the session is not connected; otherwise
\* the transport is asked, and on its success the topic is no longer tracked.
Unsubscribe(topic, ok) ==
  /\ IF ~connected
       THEN /\ lastOp' = SessionResult("Unsubscribe", topic, "err", FALSE)
            /\ UNCHANGED <<subscriptions, transportSubs>>
       ELSE IF ~ok
         THEN /\ lastOp' = SessionResult("Unsubscribe", topic, "err", TRUE)
              /\ UNCHANGED <<subscriptions, transportSubs>>
         ELSE /\ lastOp' = SessionResult("Unsubscribe", topic, "nil", TRUE)
              /\ transportSubs' =
                   [t \in (DOMAIN transportSubs) \ {topic} |-> transportSubs[t]]
              /\ subscriptions' = subscriptions \ {topic}
  /\ UNCHANGED <<backend, dbAvail, now, oidCounter, messages, connected,
                 ppc, pin, cleanSession>>
  /\ UNCHANGED <<supVars, disVars, matVars, regVars, metVars, authVars, rtVars, hdlVars, brkVars>>

\* ResubscribeAll: Subscribe with QoS 1 for the tracked topics, in the order
\* the map yields them, until one fails. redone are the topics subscribed
\* before the first failure: all of them when the call returns nil.
ResubscribeAll(redone) ==
  /\ redone \subseteq subscriptions
  /\ connected \/ redone = {}
  /\ transportSubs' =
       [t \in (DOMAIN transportSubs) \cup redone |->
          IF t \in redone THEN 1 ELSE transportSubs[t]]
  /\ lastOp' = SessionResult("ResubscribeAll", NoID,
                             IF redone = subscriptions THEN "nil" ELSE "err",
                             connected /\ subscriptions # {})
  /\ UNCHANGED <<backend, dbAvail, now, oidCounter, messages, connected,
                 ppc, pin, cleanSession, subscriptions>>
  /\ UNCHANGED <<supVars, disVars, matVars, regVars, metVars, authVars, rtVars, hdlVars, brkVars>>

\* A new Client: nothing tracked, nothing subscribed.
SessionInit ==
  /\ cleanSession \in BOOLEAN
  /\ subscriptions = {}
  /\ transportSubs = NoSubs

SessionNext ==
  \/ \E topic \in SubTopics, qos \in QoSLevels, ok \in BOOLEAN :
       Subscribe(topic, qos, ok)
  \/ \E topic \in SubTopics, ok \in BOOLEAN : Unsubscribe(topic, ok)
  \/ \E redone \in SUBSET SubTopics : ResubscribeAll(redone)
  \/ \E p \in Publishers, in \in PublishInputs : PublishCall(p, in)
  \/ \E p \in Publishers, ok \in BOOLEAN : PublishAck(p, ok)
  \/ \E p \in Publishers, fail \in BOOLEAN : PublishStore(p, fail)
  \/ Connect
  \/ ConnectionLost

(***************************************************************************)
(* internal/metrics: the Aggregator.                                       *)
(***************************************************************************)
\* The counters followed, of the ten the object has.
Counters == {"PublishedMessages", "APIRequests"}

\* The goroutines that call the Aggregator.
Goroutines == {1, 2}

\* The capacity of a latency window.
WindowCapacity == 100

\* A new Metrics object: the counters are 0 and the windows empty.
NewMetrics ==
  [PublishedMessages |-> 0, APIRequests |-> 0, LastUpdated |-> 0,
   PublishLatency |-> <<>>, SubscribeLatency |-> <<>>]

\* sync.RWMutex: Lock waits until no goroutine holds Lock or RLock, RLock
\* until no goroutine holds Lock.
NoHolder == 0
Unlocked == [writer |-> NoHolder, readers |-> {}]

\* A Lock that lets its caller in at any time.
CanLockAlways(m) == TRUE

CanLock(m) == m.writer = NoHolder /\ m.readers = {}
CanRLock(m) == m.writer = NoHolder

\* A goroutine outside the Aggregator: op is the call it is in, c the
\* counter of an increment, tmp the value m.X++ has loaded, k the number of
\* fields GetMetrics has read, snap what it has read and at the fields as
\* they were when it got the read lock; n counts the calls made.
Outside ==
  [pc |-> "idle", op |-> "", c |-> "", tmp |-> 0, k |-> 0,
   snap |-> <<>>, at |-> NewMetrics, n |-> 0]

\* Nothing has returned.
NoCalls ==
  [done |-> [c \in Counters |-> 0], stamps |-> 0,
   samples |-> [w \in {"PublishLatency", "SubscribeLatency"} |-> 0]]

\* The fields GetMetrics reads into the map it returns, in its order.
SnapOrder == <<"PublishedMessages", "APIRequests", "LastUpdated">>

\* A goroutine calls IncrementPublishedMessages or IncrementAPIRequests,
\* Reset or GetMetrics.
CallMetrics(g, op, c) ==
  /\ mproc[g].pc = "idle"
  /\ mproc[g].n < MaxCalls
  /\ op = "Increment" <=> c \in Counters
  /\ mproc' = [mproc EXCEPT ![g] =
       [@ EXCEPT !.pc = IF op = "GetMetrics" THEN "rlock" ELSE "lock",
                 !.op = op, !.c = c, !.n = @ + 1, !.k = 0, !.snap = <<>>]]
  /\ UNCHANGED <<metrics, mu, calls>>
  /\ UNCHANGED <<outVars, supVars, disVars, sesVars, matVars, regVars,
                 authVars, rtVars, hdlVars, brkVars>>

\* m.mu.Lock()
Lock(g) ==
  /\ mproc[g].pc = "lock"
  /\ CanLock(mu)
  /\ mu' = [mu EXCEPT !.writer = g]
  /\ mproc' = [mproc EXCEPT ![g].pc =
                 IF mproc[g].op = "Reset" THEN "reset" ELSE "load"]
  /\ UNCHANGED <<metrics, calls>>
  /\ UNCHANGED <<outVars, supVars, disVars, sesVars, matVars, regVars,
                 authVars, rtVars, hdlVars, brkVars>>

\* m.X++ : the counter is loaded,
Load(g) ==
  /\ mproc[g].pc = "load"
  /\ mproc' = [mproc EXCEPT ![g] =
                 [@ EXCEPT !.pc = "store", !.tmp = metrics[mproc[g].c]]]
  /\ UNCHANGED <<metrics, mu, calls>>
  /\ UNCHANGED <<outVars, supVars, disVars, sesVars, matVars, regVars,
                 authVars, rtVars, hdlVars, brkVars>>

\* and the value loaded plus one is stored.
StoreCounter(g) ==
  /\ mproc[g].pc = "store"
  /\ metrics' = [metrics EXCEPT ![mproc[g].c] = mproc[g].tmp + 1]
  /\ mproc' = [mproc EXCEPT ![g].pc = "stamp"]
  /\ UNCHANGED <<mu, calls>>
  /\ UNCHANGED <<outVars, supVars, disVars, sesVars, matVars, regVars,
                 authVars, rtVars, hdlVars, brkVars>>

\* m.LastUpdated = time.Now()
Stamp(g) ==
  /\ mproc[g].pc = "stamp"
  /\ metrics' = [metrics EXCEPT !.LastUpdated = calls.stamps + 1]
  /\ calls' = [calls EXCEPT !.stamps = @ + 1]
  /\ mproc' = [mproc EXCEPT ![g].pc = "unlock"]
  /\ UNCHANGED mu
  /\ UNCHANGED <<outVars, supVars, disVars, sesVars, matVars, regVars,
                 authVars, rtVars, hdlVars, brkVars>>

\* Reset: every counter is set to 0 and the windows are made anew.
ResetFields(g) ==
  /\ mproc[g].pc = "reset"
  /\ metrics' = [NewMetrics EXCEPT !.LastUpdated = metrics.LastUpdated]
  /\ mproc' = [mproc EXCEPT ![g].pc = "stamp"]
  /\ UNCHANGED <<mu, calls>>
  /\ UNCHANGED <<outVars, supVars, disVars, sesVars, matVars, regVars,
                 authVars, rtVars, hdlVars, brkVars>>

\* The deferred m.mu.Unlock(): the call returns.
Unlock(g) ==
  /\ mproc[g].pc = "unlock"
  /\ mu' = [mu EXCEPT !.writer = NoHolder]
  /\ calls' = IF mproc[g].op = "Reset"
                THEN [calls EXCEPT !.done = [c \in Counters |-> 0]]
                ELSE [calls EXCEPT !.done[mproc[g].c] = @ + 1]
  /\ mproc' = [mproc EXCEPT ![g].pc = "idle"]
  /\ UNCHANGED metrics
  /\ UNCHANGED <<outVars, supVars, disVars, sesVars, matVars, regVars,
                 authVars, rtVars, hdlVars, brkVars>>

\* GetMetrics: m.mu.RLock()
RLock(g) ==
  /\ mproc[g].pc = "rlock"
  /\ CanRLock(mu)
  /\ mu' = [mu EXCEPT !.readers = @ \cup {g}]
  /\ mproc' = [mproc EXCEPT ![g] = [@ EXCEPT !.pc = "snap", !.at = metrics]]
  /\ UNCHANGED <<metrics, calls>>
  /\ UNCHANGED <<outVars, supVars, disVars, sesVars, matVars, regVars,
                 authVars, rtVars, hdlVars, brkVars>>

\* GetMetrics reads the next field into the map it builds.
ReadField(g) ==
  /\ mproc[g].pc = "snap"
  /\ LET f == SnapOrder[mproc[g].k + 1]
     IN mproc' = [mproc EXCEPT ![g] =
          [@ EXCEPT !.k = @ + 1,
                    !.snap = Append(@, metrics[f]),
                    !.pc = IF mproc[g].k + 1 = Len(SnapOrder)
                             THEN "runlock" ELSE "snap"]]
  /\ UNCHANGED <<metrics, mu, calls>>
  /\ UNCHANGED <<outVars, supVars, disVars, sesVars, matVars, regVars,
                 authVars, rtVars, hdlVars, brkVars>>

\* The deferred m.mu.RUnlock(): GetMetrics returns the map.
RUnlock(g) ==
  /\ mproc[g].pc = "runlock"
  /\ mu' = [mu EXCEPT !.readers = @ \ {g}]
  /\ mproc' = [mproc EXCEPT ![g].pc = "idle"]
  /\ UNCHANGED <<metrics, calls>>
  /\ UNCHANGED <<outVars, supVars, disVars, sesVars, matVars, regVars,
                 authVars, rtVars, hdlVars, brkVars>>

\* A window that evicts only when it holds more than its capacity.
AddLatencyLate(window, latency) ==
  Append(IF Len(window) > WindowCapacity THEN Tail(window) ELSE window,
         latency)

\* The body of AddPublishLatency and AddSubscribeLatency: a window that
\* holds 100 samples loses its first, then the sample is appended.
AddLatency(window, latency) ==
  Append(IF Len(window) >= WindowCapacity THEN Tail(window) ELSE window,
         latency)

\* AddPublishLatency and AddSubscribeLatency, under the lock. The sample is
\* told apart by its place in the order of arrival.
CallAddLatency(w) ==
  /\ CanLock(mu)
  /\ calls.samples[w] < MaxSamples
  /\ metrics' = [metrics EXCEPT
                   ![w] = AddLatency(@, calls.samples[w] + 1),
                   !.LastUpdated = calls.stamps + 1]
  /\ calls' = [calls EXCEPT !.samples[w] = @ + 1, !.stamps = @ + 1]
  /\ UNCHANGED <<mu, mproc>>
  /\ UNCHANGED <<outVars, supVars, disVars, sesVars, matVars, regVars,
                 authVars, rtVars, hdlVars, brkVars>>

\* metrics.New
MetricsInit ==
  /\ metrics = NewMetrics
  /\ mu = Unlocked
  /\ mproc = [g \in Goroutines |-> Outside]
  /\ calls = NoCalls

MetricsNext ==
  \/ \E g \in Goroutines, c \in Counters : CallMetrics(g, "Increment", c)
  \/ \E g \in Goroutines : CallMetrics(g, "Reset", "")
  \/ \E g \in Goroutines : CallMetrics(g, "GetMetrics", "")
  \/ \E g \in Goroutines : Lock(g)
  \/ \E g \in Goroutines : Load(g)
  \/ \E g \in Goroutines : StoreCounter(g)
  \/ \E g \in Goroutines : Stamp(g)
  \/ \E g \in Goroutines : ResetFields(g)
  \/ \E g \in Goroutines : Unlock(g)
  \/ \E g \in Goroutines : RLock(g)
  \/ \E g \in Goroutines : ReadField(g)
  \/ \E g \in Goroutines : RUnlock(g)

\* AddPublishLatency and AddSubscribeLatency
LatencyNext ==
  \/ CallAddLatency("PublishLatency")
  \/ CallAddLatency("SubscribeLatency")

(***************************************************************************)
(* internal/auth: the authentication middleware.                           *)
(***************************************************************************)
\* Keys and header values are strings of characters.
Key1 == <<"k", "1">>
Key2 == <<"k", "2">>
BadKey == <<"n", "o">>
BearerPrefix == <<"B", "e", "a", "r", "e", "r", " ">>
LowerPrefix == <<"b", "e", "a", "r", "e", "r", " ">>

\* auth.Config as LoadConfig fills it: API_KEY_ENABLED and the keys of
\* API_KEYS.
AuthConfigs ==
  [EnableAPIKey : BOOLEAN, APIKeys : {<<>>, <<Key1>>, <<Key1, Key2>>}]

\* The requests: the path, the X-API-Key header, the api_key query
\* parameter and the Authorization header (an empty string when not given).
AuthRequests ==
  [path : {"/healthz", "/status", "/healthz/"},
   xApiKey : {<<>>, Key1, BadKey},
   queryKey : {<<>>, Key2, BadKey},
   authorization : {<<>>, BearerPrefix \o Key1, BearerPrefix \o BadKey,
                    BearerPrefix, Key1, LowerPrefix \o Key1}]

\* ValidateAPIKey that takes any key.
ValidateAPIKeyAny(cfg, apiKey) == cfg.EnableAPIKey

\* ValidateAPIKey: false when the authentication is disabled; otherwise
\* whether the key equals one of the configured keys.
ValidateAPIKey(cfg, apiKey) ==
  /\ cfg.EnableAPIKey
  /\ \E i \in DOMAIN cfg.APIKeys : cfg.APIKeys[i] = apiKey

\* The key AuthMiddleware takes from a request: the X-API-Key header, when
\* that is empty the api_key parameter, when that is empty the rest of an
\* Authorization header longer than "Bearer " that begins with it.
RequestAPIKey(req) ==
  IF req.xApiKey # <<>> THEN req.xApiKey
  ELSE IF req.queryKey # <<>> THEN req.queryKey
  ELSE IF /\ Len(req.authorization) > 7
          /\ SubSeq(req.authorization, 1, 7) = BearerPrefix
    THEN SubSeq(req.authorization, 8, Len(req.authorization))
  ELSE <<>>

\* AuthMiddleware: TRUE when next.ServeHTTP is called, FALSE when the
\* request is answered 401.
AuthPasses(cfg, req) ==
  IF req.path = "/healthz" THEN TRUE
  ELSE IF ~cfg.EnableAPIKey THEN TRUE
  ELSE LET apiKey == RequestAPIKey(req)
       IN apiKey # <<>> /\ ValidateAPIKey(cfg, apiKey)

NoRequestYet ==
  [req |-> [path |-> "", xApiKey |-> <<>>, queryKey |-> <<>>,
            authorization |-> <<>>],
   ran |-> FALSE, status |-> 0]

\* A request comes to the middleware: the handler runs and answers, or the
\* middleware answers 401.
AuthMiddleware(req) ==
  /\ lastReq' = IF AuthPasses(authConfig, req)
                  THEN [req |-> req, ran |-> TRUE, status |-> 200]
                  ELSE [req |-> req, ran |-> FALSE, status |-> 401]
  /\ UNCHANGED authConfig
  /\ UNCHANGED <<outVars, supVars, disVars, sesVars, matVars, regVars,
                 metVars, rtVars, hdlVars, brkVars>>

AuthInit ==
  /\ authConfig \in AuthConfigs
  /\ lastReq = NoRequestYet

AuthNext == \E req \in AuthRequests : AuthMiddleware(req)

(***************************************************************************)
(* internal/api: the router and the message handlers behind it.            *)
(***************************************************************************)
\* The routes of setupRoutes for the POST and DELETE requests under
\* /messages, in the order they are registered. A path is the sequence of
\* its segments.
Routes ==
  << [path |-> <<"messages", "{id}", "confirm">>, method |-> "POST",
      handler |-> "handleConfirmMessage"],
     [path |-> <<"messages", "{id}">>, method |-> "DELETE",
      handler |-> "handleDeleteMessage"],
     [path |-> <<"messages", "confirmed">>, method |-> "DELETE",
      handler |-> "handleDeleteConfirmedMessages"] >>

\* A path matches a template when it has as many segments and every segment
\* is the one of the template, or any non-empty segment for a variable.
PathMatches(template, path) ==
  /\ Len(template) = Len(path)
  /\ \A i \in DOMAIN template :
       IF template[i] = "{id}" THEN path[i] # "" ELSE template[i] = path[i]

\* The router tries the routes in the order they were added: the first
\* whose path and method both match takes the request; when only paths
\* matched the answer is 405, when nothing matched 404.
RouteMatch(method, path) ==
  LET full == {i \in DOMAIN Routes :
                 PathMatches(Routes[i].path, path) /\ Routes[i].method = method}
      some == {i \in DOMAIN Routes : PathMatches(Routes[i].path, path)}
  IN IF full # {}
       THEN Routes[CHOOSE i \in full : \A j \in full : i <= j].handler
     ELSE IF some # {} THEN "methodNotAllowed" ELSE "notFound"

\* The status a handler answers for the error of its database call.
ErrStatus(err) ==
  IF err = "nil" THEN 200 ELSE IF err = "notfound" THEN 404 ELSE 500

NoRoute ==
  [method |-> "", path |-> <<>>, handler |-> "", status |-> 0, count |-> 0]

\* The requests the router is given.
RouteMethods == {"POST", "DELETE"}
RoutePaths ==
  {<<"messages", id>> : id \in IdInputs \cup {"confirmed"}} \cup
  {<<"messages", id, "confirm">> : id \in IdInputs} \cup {<<"messages">>}

\* A request is routed and its handler runs.
ServeHTTP(method, path, fail) ==
  /\ dbAvail
  /\ LET handler == RouteMatch(method, path)
         said == [NoRoute EXCEPT !.method = method, !.path = path,
                                 !.handler = handler]
     IN CASE handler = "handleConfirmMessage" ->
               LET r == ConfirmMessage(messages, path[2], fail)
               IN /\ messages' = r.tbl
                  /\ lastOp' = [OpResult("Confirm", path[2], r.err, 0) EXCEPT
                                  !.rec = IF path[2] \in DOMAIN messages
                                            THEN messages[path[2]]
                                            ELSE NoRecord]
                  /\ routed' = [said EXCEPT !.status = ErrStatus(r.err)]
          [] handler = "handleDeleteMessage" ->
               LET r == DeleteMessage(messages, path[2], fail)
               IN /\ messages' = r.tbl
                  /\ lastOp' = OpResult("Delete", path[2], r.err, 0)
                  /\ routed' = [said EXCEPT !.status = ErrStatus(r.err)]
          [] handler = "handleDeleteConfirmedMessages" ->
               LET r == DeleteConfirmedMessages(messages, fail)
               IN /\ messages' = r.tbl
                  /\ lastOp' = OpResult("Purge", NoID, r.err, r.count)
                  /\ routed' = [said EXCEPT
                                  !.status = IF r.err = "nil" THEN 200 ELSE 500,
                                  !.count = r.count]
          [] OTHER ->
               /\ ~fail
               /\ routed' = [said EXCEPT
                               !.status = IF handler = "notFound" THEN 404
                                          ELSE 405]
               /\ UNCHANGED <<messages, lastOp>>
  /\ UNCHANGED <<backend, dbAvail, now, oidCounter, connected, ppc, pin>>
  /\ UNCHANGED <<supVars, disVars, sesVars, matVars, regVars, metVars,
                 authVars, hdlVars, brkVars>>

RouterInit == routed = NoRoute

RoutesNext ==
  \/ \E msg \in StoreInputsAll, fail \in BOOLEAN : Store(msg, fail)
  \/ \E method \in RouteMethods, path \in RoutePaths, fail \in BOOLEAN :
       ServeHTTP(method, path, fail)
  \/ Tick

(***************************************************************************)
(* internal/api: handleSubscribe, handleUnsubscribe and the callback.      *)
(***************************************************************************)
\* The requests in progress at one time.
Handlers == {"h1", "h2"}

\* The sessions GetClient can hand out.
SessionNames == {n \in Brokers : Validate(n)}

\* len(client.GetSubscriptions()), summed over the sessions.
RECURSIVE SumSizes(_, _)
SumSizes(tr, names) ==
  IF names = {} THEN 0
  ELSE LET n == CHOOSE m \in names : TRUE
       IN Cardinality(DOMAIN tr[n]) + SumSizes(tr, names \ {n})

\* No envelope yet.
NoEnvelope == [topic |-> "", broker |-> "", session |-> ""]

\* handleSubscribe as far as client.Subscribe: GetClient(req.Broker) fails
\* for a name without a valid configuration, and Connect or Subscribe may
\* fail (ok is FALSE); the request is then answered 500 and nothing has
\* changed. Otherwise the topic is tracked with a callback that holds
\* req.Broker, and the handler goes on to count.
handleSubscribe(h, topic, broker, ok) ==
  /\ hpc[h] = "idle"
  /\ LET got == GetBrokerConfig(broker)
         name == IF broker = "" THEN DefaultConnection ELSE broker
     IN IF got.err \/ ~Validate(got.cfg) \/ ~ok
          THEN UNCHANGED <<tracked, hpc>>
          ELSE /\ tracked' =
                    [tracked EXCEPT ![name] =
                       [t \in (DOMAIN tracked[name]) \cup {topic} |->
                          IF t = topic THEN broker ELSE tracked[name][t]]]
               /\ hpc' = [hpc EXCEPT ![h] = "count"]
  /\ UNCHANGED <<hcount, subscriptionCount, envelope>>
  /\ UNCHANGED <<outVars, supVars, disVars, sesVars, matVars, regVars,
                 metVars, authVars, rtVars, brkVars>>

\* handleUnsubscribe as far as client.Unsubscribe: the same, with ok FALSE
\* also when the session is not connected.
handleUnsubscribe(h, topic, broker, ok) ==
  /\ hpc[h] = "idle"
  /\ LET got == GetBrokerConfig(broker)
         name == IF broker = "" THEN DefaultConnection ELSE broker
     IN IF got.err \/ ~Validate(got.cfg) \/ ~ok
          THEN UNCHANGED <<tracked, hpc>>
          ELSE /\ tracked' =
                    [tracked EXCEPT ![name] =
                       [t \in (DOMAIN tracked[name]) \ {topic} |->
                          tracked[name][t]]]
               /\ hpc' = [hpc EXCEPT ![h] = "count"]
  /\ UNCHANGED <<hcount, subscriptionCount, envelope>>
  /\ UNCHANGED <<outVars, supVars, disVars, sesVars, matVars, regVars,
                 metVars, authVars, rtVars, brkVars>>

\* The loop over GetAllClients() that sums the sizes of the tracked sets.
CountSubscriptions(h) ==
  /\ hpc[h] = "count"
  /\ hcount' = [hcount EXCEPT ![h] = SumSizes(tracked, SessionNames)]
  /\ hpc' = [hpc EXCEPT ![h] = "set"]
  /\ UNCHANGED <<tracked, subscriptionCount, envelope>>
  /\ UNCHANGED <<outVars, supVars, disVars, sesVars, matVars, regVars,
                 metVars, authVars, rtVars, brkVars>>

\* Metrics.SetSubscriptionCount(subscriptionCount), and the answer 200.
SetSubscriptionCount(h) ==
  /\ hpc[h] = "set"
  /\ subscriptionCount' = hcount[h]
  /\ hcount' = [hcount EXCEPT ![h] = 0]
  /\ hpc' = [hpc EXCEPT ![h] = "idle"]
  /\ UNCHANGED <<tracked, envelope>>
  /\ UNCHANGED <<outVars, supVars, disVars, sesVars, matVars, regVars,
                 metVars, authVars, rtVars, brkVars>>

\* A message arrives on a session for a tracked topic: the callback calls
\* sendWebhookNotification(msg.Topic(), req.Broker, ...), which builds the
\* envelope.
NewWebhookPayload(name, topic) ==
  /\ topic \in DOMAIN tracked[name]
  /\ envelope' = [topic |-> topic, broker |-> tracked[name][topic],
                  session |-> name]
  /\ UNCHANGED <<tracked, hpc, hcount, subscriptionCount>>
  /\ UNCHANGED <<outVars, supVars, disVars, sesVars, matVars, regVars,
                 metVars, authVars, rtVars, brkVars>>

\* A new server: no session tracks a topic, the count is zero.
HandlersInit ==
  /\ tracked = [n \in SessionNames |-> NoSubs]
  /\ hpc = [h \in Handlers |-> "idle"]
  /\ hcount = [h \in Handlers |-> 0]
  /\ subscriptionCount = 0
  /\ envelope = NoEnvelope

HandlersNext ==
  \/ \E h \in Handlers, topic \in SubTopics, broker \in BrokerNames,
        ok \in BOOLEAN : handleSubscribe(h, topic, broker, ok)
  \/ \E h \in Handlers, topic \in SubTopics, broker \in BrokerNames,
        ok \in BOOLEAN : handleUnsubscribe(h, topic, broker, ok)
  \/ \E h \in Handlers : CountSubscriptions(h)
  \/ \E h \in Handlers : SetSubscriptionCount(h)
  \/ \E name \in SessionNames, topic \in SubTopics :
       NewWebhookPayload(name, topic)

(***************************************************************************)
(* internal/broker: Start, Stop and IsRunning of the embedded broker.      *)
(***************************************************************************)
\* The fields of broker.Config that Start reads.
BrokerConfigs ==
  [Enable : BOOLEAN, AuthEnable : BOOLEAN, EnableLogging : BOOLEAN,
   TLSEnable : BOOLEAN]

\* The steps of Start that can fail, in the order Start takes them.
StartSteps == <<"authHook", "loggingHook", "tcp", "tlsCert", "tls", "serve">>

\* The steps Start takes under a configuration.
Taken(cfg, step) ==
  IF step = "authHook" THEN cfg.AuthEnable
  ELSE IF step = "loggingHook" THEN cfg.EnableLogging
  ELSE IF step \in {"tlsCert", "tls"} THEN cfg.TLSEnable
  ELSE TRUE

\* The listeners Start has added when it fails at step k of StartSteps, or
\* when it fails at none (k is past the last step).
Added(cfg, k) ==
  {id \in {"tcp", "tls"} :
     \E j \in 1..Len(StartSteps) :
       j < k /\ StartSteps[j] = id /\ Taken(cfg, id)}

BrokerResult(op, err) == [op |-> op, err |-> err]

\* Broker.Start, under b.mu. failAt is the step that fails, or one past the
\* last step when none does.
Start(failAt) ==
  /\ failAt \in 1..Len(StartSteps) => Taken(brokerConfig, StartSteps[failAt])
  /\ IF ~brokerConfig.Enable
       THEN /\ brokerSaid' = BrokerResult("Start", FALSE)
            /\ UNCHANGED <<running, server, listeners>>
       ELSE IF running
         THEN /\ brokerSaid' = BrokerResult("Start", TRUE)
              /\ UNCHANGED <<running, server, listeners>>
         ELSE /\ listeners' = listeners \cup Added(brokerConfig, failAt)
              /\ IF failAt \in 1..Len(StartSteps)
                   THEN /\ brokerSaid' = BrokerResult("Start", TRUE)
                        /\ UNCHANGED <<running, server>>
                   ELSE /\ brokerSaid' = BrokerResult("Start", FALSE)
                        /\ server' = "serving"
                        /\ running' = TRUE
  /\ UNCHANGED <<brokerConfig, closing>>
  /\ UNCHANGED <<outVars, supVars, disVars, sesVars, matVars, regVars,
                 metVars, authVars, rtVars, hdlVars>>

\* Broker.Stop(ctx), under b.mu: server.Close() runs in a goroutine, and
\* Stop waits for it or for the context. inTime: Close returned first.
Stop(inTime) ==
  /\ IF ~running
       THEN /\ brokerSaid' = BrokerResult("Stop", FALSE)
            /\ UNCHANGED <<running, server, listeners, closing>>
       ELSE IF inTime
         THEN /\ brokerSaid' = BrokerResult("Stop", FALSE)
              /\ server' = "closed"
              /\ listeners' = {}
              /\ running' = FALSE
              /\ UNCHANGED closing
         ELSE /\ brokerSaid' = BrokerResult("Stop", TRUE)
              /\ closing' = TRUE
              /\ UNCHANGED <<running, server, listeners>>
  /\ UNCHANGED brokerConfig
  /\ UNCHANGED <<outVars, supVars, disVars, sesVars, matVars, regVars,
                 metVars, authVars, rtVars, hdlVars>>

\* The goroutine of a Stop that gave up: server.Close() returns.
CloseReturns ==
  /\ closing
  /\ closing' = FALSE
  /\ server' = "closed"
  /\ listeners' = {}
  /\ UNCHANGED <<brokerConfig, running, brokerSaid>>
  /\ UNCHANGED <<outVars, supVars, disVars, sesVars, matVars, regVars,
                 metVars, authVars, rtVars, hdlVars>>

\* broker.New: a server not started, running false.
BrokerInit ==
  /\ brokerConfig \in BrokerConfigs
  /\ running = FALSE
  /\ server = "new"
  /\ listeners = {}
  /\ closing = FALSE
  /\ brokerSaid = BrokerResult("none", FALSE)

BrokerNext ==
  \/ \E failAt \in 1..(Len(StartSteps) + 1) : Start(failAt)
  \/ \E inTime \in BOOLEAN : Stop(inTime)
  \/ CloseReturns

(***************************************************************************)
(* The specifications.                                                     *)
(***************************************************************************)
\* A dispatch at rest: no global target and no message.
DispatchIdle == DispatchInit /\ ~webhookConfig.enabled

\* A session at rest: a clean session with no subscription.
SessionIdle == SessionInit /\ cleanSession

\* No call of the matcher on its own.
MatchIdle == MatchInit /\ mtopic = <<>> /\ mfilter = <<>>

\* A registry at rest.
RegistryIdle == RegistryInit

\* An Aggregator nothing calls.
MetricsIdle == MetricsInit

\* A middleware without keys, and a router, that no request has come to.
AuthIdle ==
  /\ authConfig = [EnableAPIKey |-> FALSE, APIKeys |-> <<>>]
  /\ lastReq = NoRequestYet
RouterIdle == RouterInit

\* No subscribe or unsubscribe request, and a broker that is not enabled.
HandlersIdle == HandlersInit
BrokerIdle ==
  /\ BrokerInit
  /\ brokerConfig = [Enable |-> FALSE, AuthEnable |-> FALSE,
                     EnableLogging |-> FALSE, TLSEnable |-> FALSE]

InitOutbox ==
  /\ OutboxInit /\ SupervisorInit /\ DispatchIdle /\ SessionIdle
  /\ MatchIdle /\ RegistryIdle
  /\ MetricsIdle /\ AuthIdle /\ RouterIdle
  /\ HandlersIdle /\ BrokerIdle
NextOutbox == OutboxNext
SpecOutbox == InitOutbox /\ [][NextOutbox]_vars

\* The supervisor runs with an outbox at rest.
InitSupervisor ==
  /\ SupervisorInit
  /\ OutboxInit /\ backend = "sqlite" /\ dbAvail
  /\ DispatchIdle
  /\ SessionIdle
  /\ MatchIdle
  /\ RegistryIdle
  /\ MetricsIdle /\ AuthIdle /\ RouterIdle
  /\ HandlersIdle /\ BrokerIdle
NextSupervisor == SupervisorNext
SpecSupervisor == InitSupervisor /\ [][NextSupervisor]_vars

\* The dispatch runs with or without a database.
InitDispatch ==
  /\ DispatchInit
  /\ OutboxInit /\ backend = "sqlite"
  /\ SupervisorInit
  /\ SessionIdle
  /\ MatchIdle
  /\ RegistryIdle
  /\ MetricsIdle /\ AuthIdle /\ RouterIdle
  /\ HandlersIdle /\ BrokerIdle
NextDispatch == DispatchNext
SpecDispatch == InitDispatch /\ [][NextDispatch]_vars

\* The dispatch with its scheduling: every started goroutine is run on, and
\* every client.Do call returns (the client has the timeout of its target).
SpecDispatchFair ==
  /\ InitDispatch
  /\ [][NextDispatch]_vars
  /\ \A m \in Tasks :
       /\ WF_vars(StartDispatch(m))
       /\ WF_vars(\E fail \in BOOLEAN : LookupWebhooks(m, fail))
       /\ WF_vars(BuildRequest(m))
       /\ WF_vars(Do(m))
       /\ WF_vars(\E end \in Outcomes(FALSE) \cup Outcomes(TRUE) :
                    DoReturns(m, end))
       /\ WF_vars(NextTarget(m))

\* The store on its own, with a backend configured.
InitStore ==
  /\ OutboxInit /\ dbAvail
  /\ SupervisorInit
  /\ DispatchIdle
  /\ SessionIdle
  /\ MatchIdle
  /\ RegistryIdle
  /\ MetricsIdle /\ AuthIdle /\ RouterIdle
  /\ HandlersIdle /\ BrokerIdle
NextStore == StoreNext
SpecStore == InitStore /\ [][NextStore]_vars

\* The session: its calls, and the transport connecting and losing the
\* connection. The transport reconnects by itself (SetAutoReconnect(true)):
\* a session that is not connected is connected again in the end.
InitSession ==
  /\ SessionInit
  /\ OutboxInit
  /\ SupervisorInit
  /\ DispatchIdle
  /\ MatchIdle
  /\ RegistryIdle
  /\ MetricsIdle /\ AuthIdle /\ RouterIdle
  /\ HandlersIdle /\ BrokerIdle
NextSession == SessionNext
SpecSession == InitSession /\ [][NextSession]_vars /\ WF_vars(Connect)

\* The webhook registry: its requests and the lookup of the dispatch.
InitRegistry ==
  /\ RegistryInit
  /\ OutboxInit /\ dbAvail
  /\ SupervisorInit
  /\ DispatchIdle
  /\ SessionIdle
  /\ MatchIdle
  /\ MetricsIdle /\ AuthIdle /\ RouterIdle
  /\ HandlersIdle /\ BrokerIdle
NextRegistry == RegistryNext
SpecRegistry == InitRegistry /\ [][NextRegistry]_vars

\* The webhook requests of the API: create, get, update and delete.
InitWebhookRequests == InitRegistry
NextWebhookRequests == WebhookRequestsNext
SpecWebhookRequests == InitWebhookRequests /\ [][NextWebhookRequests]_vars

\* Concurrent goroutines on the Aggregator.
InitMetrics ==
  /\ MetricsInit
  /\ OutboxInit /\ SupervisorInit /\ DispatchIdle /\ SessionIdle
  /\ MatchIdle /\ AuthIdle /\ RouterIdle
  /\ HandlersIdle /\ BrokerIdle
  /\ RegistryInit
NextMetrics == MetricsNext
SpecMetrics == InitMetrics /\ [][NextMetrics]_vars

\* The latency windows: one call after another.
InitLatency == InitMetrics
NextLatency == LatencyNext
SpecLatency == InitLatency /\ [][NextLatency]_vars

\* The middleware on its own: a configuration and one request after another.
InitAuth ==
  /\ AuthInit
  /\ OutboxInit /\ SupervisorInit /\ DispatchIdle /\ SessionIdle
  /\ MatchIdle /\ MetricsIdle /\ RouterIdle
  /\ HandlersIdle /\ BrokerIdle
  /\ RegistryInit
NextAuth == AuthNext
SpecAuth == InitAuth /\ [][NextAuth]_vars

\* The router in front of the message handlers, with a backend configured.
InitRoutes ==
  /\ RouterInit
  /\ OutboxInit /\ dbAvail
  /\ SupervisorInit /\ DispatchIdle /\ SessionIdle
  /\ MatchIdle /\ MetricsIdle /\ AuthIdle
  /\ HandlersIdle /\ BrokerIdle
  /\ RegistryInit
NextRoutes == RoutesNext
SpecRoutes == InitRoutes /\ [][NextRoutes]_vars

\* The subscribe and unsubscribe handlers and the callbacks they install.
InitHandlers ==
  /\ HandlersInit
  /\ OutboxInit /\ backend = "sqlite" /\ dbAvail
  /\ SupervisorInit /\ DispatchIdle /\ SessionIdle /\ RegistryIdle
  /\ MatchIdle /\ MetricsIdle /\ AuthIdle /\ RouterIdle /\ BrokerIdle
NextHandlers == HandlersNext
SpecHandlers == InitHandlers /\ [][NextHandlers]_vars

\* The embedded broker under every configuration.
InitBroker ==
  /\ BrokerInit
  /\ OutboxInit /\ backend = "sqlite" /\ dbAvail
  /\ SupervisorInit /\ DispatchIdle /\ SessionIdle /\ RegistryIdle
  /\ MatchIdle /\ MetricsIdle /\ AuthIdle /\ RouterIdle /\ HandlersIdle
NextBroker == BrokerNext
SpecBroker == InitBroker /\ [][NextBroker]_vars

\* The topic matcher on its own: one call for every topic and filter.
InitMatch ==
  /\ MatchInit
  /\ OutboxInit /\ backend = "sqlite" /\ dbAvail
  /\ SupervisorInit
  /\ DispatchIdle
  /\ SessionIdle
  /\ RegistryIdle
  /\ MetricsIdle /\ AuthIdle /\ RouterIdle
  /\ HandlersIdle /\ BrokerIdle
NextMatch == MatchNext
SpecMatch == InitMatch /\ [][NextMatch]_vars


(***************************************************************************)
(* Properties of Publish and the outbox (SpecOutbox).                      *)
(***************************************************************************)
\* The record a Publish call added carries the call's topic, qos and retained
\* flag and is unconfirmed.
CarriesPublished(r) ==
  /\ r.rec.topic = r.in.topic
  /\ r.rec.qos = r.in.qos
  /\ r.rec.retained = r.in.retained
  /\ r.rec.confirmed = FALSE

\* C2 as stated: with an outbox configured, every Publish call that returns
\* success has added exactly one record carrying the published topic, qos and
\* retained flag with confirmed=false, and every Publish call that returns an
\* error has added none.
C2_PublishAddsExactlyOne ==
  (dbAvail /\ lastOp.op = "Publish") =>
    IF lastOp.err = "nil"
      THEN lastOp.added = 1 /\ CarriesPublished(lastOp)
      ELSE lastOp.added = 0

\* C2 as amended: with an outbox configured, every Publish call that returns
\* success has called StoreMessage once; when that call succeeded it has added
\* exactly one record carrying the published topic, qos and retained flag with
\* confirmed=false, and when it failed it has added none. Every Publish call
\* that returns an error has not called StoreMessage and has added none.
C2_PublishAddsOneUnlessStoreFails ==
  (dbAvail /\ lastOp.op = "Publish") =>
    /\ (lastOp.err = "nil") => lastOp.stored \in {"nil", "insert"}
    /\ (lastOp.err = "nil" /\ lastOp.stored = "nil") =>
          lastOp.added = 1 /\ CarriesPublished(lastOp)
    /\ (lastOp.err = "nil" /\ lastOp.stored # "nil") => lastOp.added = 0
    /\ (lastOp.err # "nil") => lastOp.stored = "none" /\ lastOp.added = 0

\* A Publish call has returned success and its record is in the outbox.
C2_Witness ==
  /\ dbAvail
  /\ lastOp.op = "Publish" /\ lastOp.err = "nil" /\ lastOp.stored = "nil"
  /\ lastOp.added = 1
  /\ lastOp.id \in DOMAIN messages

\* C3 as stated: no operation removes a record whose confirmed flag is false;
\* an unconfirmed record of one state is a record of the next.
C3_UnconfirmedNeverRemoved ==
  [][\A id \in DOMAIN messages :
        ~messages[id].confirmed => id \in DOMAIN messages']_vars

\* C4: the confirmed flag is one-way and Confirm is the only operation that
\* changes a field of an existing record: over every step, a record that is
\* confirmed stays confirmed while it exists, and a record that differs after
\* the step was changed by a Confirm of its id, in its confirmed flag alone.
C4_ConfirmedOneWay ==
  [][\A id \in (DOMAIN messages) \cap (DOMAIN messages') :
        /\ messages[id].confirmed => messages'[id].confirmed
        /\ (messages'[id] # messages[id]) =>
              /\ lastOp'.op = "Confirm" /\ lastOp'.id = id
              /\ messages'[id] = [messages[id] EXCEPT !.confirmed = TRUE]]_vars

\* A Store (or the store of a Publish) with the id of a confirmed record was
\* refused, and the record is still there, confirmed.
C4_Witness ==
  /\ lastOp.op \in {"Store", "Publish"}
  /\ lastOp.id \in DOMAIN messages
  /\ messages[lastOp.id].confirmed
  /\ IF lastOp.op = "Store" THEN lastOp.err = "insert"
                            ELSE lastOp.stored = "insert"

\* C5: PurgeConfirmed removes exactly the records that are confirmed when it
\* is called, returns their number, leaves every unconfirmed record in place
\* and unchanged, and GetByID of a record it removed is NotFound afterwards.
\* (A purge that fails on the backend removes nothing and returns 0.)
\* A step that sets lastOp to a purge, or changes the table under one, is a
\* step of PurgeConfirmed.
C5_PurgeRemovesExactlyConfirmed ==
  [][(lastOp'.op = "Purge" /\ (lastOp' # lastOp \/ messages' # messages)) =>
       LET confirmedIds == {id \in DOMAIN messages : messages[id].confirmed}
       IN IF lastOp'.err = "nil"
            THEN /\ DOMAIN messages' = (DOMAIN messages) \ confirmedIds
                 /\ \A id \in DOMAIN messages' : messages'[id] = messages[id]
                 /\ lastOp'.count = Cardinality(confirmedIds)
                 /\ \A id \in confirmedIds :
                       GetMessageByID(messages', id, backend).err = "notfound"
            ELSE messages' = messages /\ lastOp'.count = 0]_vars

\* A purge has removed a confirmed record and left an unconfirmed one.
C5_Witness ==
  /\ lastOp.op = "Purge" /\ lastOp.err = "nil" /\ lastOp.count >= 1
  /\ \E id \in DOMAIN messages : ~messages[id].confirmed

(***************************************************************************)
(* Properties of the session supervisor (SpecSupervisor).                  *)
(***************************************************************************)
\* C1 as stated: for every broker name and every interleaving of concurrent
\* GetClient calls, at most one session object is ever created for the name
\* and all callers receive that same session.
C1_OneSessionPerName ==
  \A n \in BrokerNames :
    /\ Cardinality({s \in sessions : s.name = n}) <= 1
    /\ \A h1, h2 \in handed : (h1[1] = n /\ h2[1] = n) => h1[2] = h2[2]

(***************************************************************************)
(* Properties of the webhook dispatch (SpecDispatch).                      *)
(***************************************************************************)
\* The webhooks of message m's dispatch that have had no attempt yet, are not
\* the target of the current delivery, and for which a request can be made.
Pending(m) ==
  LET t == task[m]
      later == IF t.global
                 THEN IF dbAvail THEN GetWebhooksByTopicFilter(webhooks, t.topic)
                                 ELSE <<>>
                 ELSE SubSeq(t.found, t.k + 1, Len(t.found))
      CanBuild(w) == ~NewRequestErr(w.method, w.url)
  IN SelectSeq(later, CanBuild)

\* C6 as stated: the deliveries of one message to its targets are
\* independent; while the delivery to one target is in its HTTP call or in a
\* retry sleep, no other target of the message is still waiting for its
\* first HTTP attempt.
C6_FirstAttemptNeverWaits ==
  \A m \in Tasks : task[m].pc \in {"wait", "sleep"} => Pending(m) = <<>>

\* C7: whatever the dispatches in flight are doing (lookup, HTTP call, retry
\* sleep, failing), the handler can take the next inbound message.
C7_HandlerNeverBlocked ==
  received < MaxMessages => \A topic \in Topics : ENABLED messageHandler(topic)

\* A message was handled while an earlier message's delivery was in a retry
\* sleep, and another while one was inside its HTTP call.
C7_Witness ==
  \E m \in Tasks : task[m].pc # "none" /\ task[m].during

\* The attempts of the delivery a task is in, finished or not: never more
\* than retry_count+1; a further attempt is made or awaited only after a
\* failed one that was not the last allowed; the delivery ends with success
\* exactly on a 2xx response and with failure only on the last allowed
\* attempt.
AttemptsWellFormed(t) ==
  LET n == t.attempts
      rc == Cur(t).retryCount
  IN /\ n <= rc + 1
     /\ t.pc \in {"send", "wait", "sleep"} => n <= rc /\ t.last # "2xx"
     /\ t.pc = "sleep" => n >= 1
     /\ t.pc = "returned" /\ n >= 1 =>
          /\ t.outcome = "success" <=> t.last = "2xx"
          /\ t.outcome = "failed" <=> t.last # "2xx"
          /\ t.last # "2xx" => n = rc + 1

InDelivery(t) == t.pc \in {"send", "wait", "sleep", "returned"}

\* C8 as stated: every delivery makes at least 1 and at most retry_count+1
\* attempts, a further one exactly after a failed attempt that was not the
\* last allowed, and none after a 2xx response.
C8_AtLeastOneAttempt ==
  \A m \in Tasks :
    InDelivery(task[m]) =>
      /\ AttemptsWellFormed(task[m])
      /\ task[m].pc = "returned" => task[m].attempts >= 1

\* C8, amended: a delivery whose HTTP request can be created makes at least 1
\* and at most retry_count+1 attempts, a further one exactly after a failed
\* attempt that was not the last allowed, and none after a 2xx response; a
\* delivery whose request cannot be created makes no attempt and does not
\* succeed.
C8_AttemptsWhenRequestCreated ==
  \A m \in Tasks :
    InDelivery(task[m]) =>
      /\ AttemptsWellFormed(task[m])
      /\ task[m].pc = "returned" =>
           IF NewRequestErr(Cur(task[m]).method, Cur(task[m]).url)
             THEN task[m].attempts = 0 /\ task[m].outcome = "norequest"
             ELSE task[m].attempts >= 1

\* A delivery with retry_count 3 has ended with success on its third attempt
\* after two failed ones.
C8_Witness ==
  \E m \in Tasks :
    /\ task[m].pc = "returned"
    /\ Cur(task[m]).retryCount = 3
    /\ task[m].attempts = 3
    /\ task[m].last = "2xx"
    /\ task[m].outcome = "success"

\* C9 as stated: every request a delivery issues carries the engine's values
\* of the content-type and User-Agent headers.
C9_ReservedHeadersKept ==
  \A m \in Tasks :
    task[m].pc = "wait" =>
      /\ task[m].req.header["Content-Type"] = ReservedHeaders["Content-Type"]
      /\ task[m].req.header["User-Agent"] = ReservedHeaders["User-Agent"]

\* C10 as stated: for every target, the first attempts of the messages that
\* reach it are issued in the order in which the handler was given the
\* messages.
C10_FirstAttemptsInHandlerOrder ==
  \A u \in TargetURLs :
    \A i, j \in 1..Len(firstOrder[u]) :
      i < j => firstOrder[u][i] < firstOrder[u][j]


(***************************************************************************)
(* The session's subscriptions.                                            *)
(***************************************************************************)
\* Every tracked topic is subscribed at the transport.
AllResubscribed == subscriptions \subseteq DOMAIN transportSubs

\* C11: after the connection of a session is lost and established again,
\* ResubscribeAll is run: while the session stays connected, every tracked
\* topic is in the end subscribed again at the transport.
C11_ResubscribedAfterReconnect ==
  [](connected => <>(~connected \/ AllResubscribed))


(***************************************************************************)
(* Publish and the outbox.                                                 *)
(***************************************************************************)
\* C12: the outbox append is asynchronous to Publish: when the transport has
\* acknowledged the send, Publish returns to its caller and does not wait
\* for the Store call of the outbox.
C12_PublishReturnsAtAck ==
  [][\A p \in Publishers :
       (ppc[p] = "wait" /\ ppc'[p] # "wait") => ppc'[p] = "idle"]_vars

\* C13: when the transport send succeeded and the Store of the outbox then
\* failed, Publish still returns success.
C13_StoreFailureNotReturned ==
  (lastOp.op = "Publish" /\ lastOp.sent /\ lastOp.stored \notin {"none", "nil"})
    => lastOp.err = "nil"

\* A Publish has returned nil after its Store failed at the backend.
C13_Witness ==
  /\ lastOp.op = "Publish"
  /\ lastOp.stored = "insert"
  /\ lastOp.added = 0
  /\ lastOp.err = "nil"


\* A step in which a call of Publish, Subscribe or Unsubscribe returns without
\* having waited: Subscribe and Unsubscribe are one step, Publish returns
\* from its first step when no publisher moves.
CallReturnsAtOnce ==
  /\ lastOp' # lastOp
  /\ \/ lastOp'.op \in {"Subscribe", "Unsubscribe"}
     \/ lastOp'.op = "Publish" /\ ppc' = ppc

\* C14: Publish, Subscribe and Unsubscribe on a session that is not connected
\* return an error at once: the transport is not called, no outbox record is
\* added and the tracked subscription set is not changed.
C14_NotConnectedFailsFast ==
  [][~connected =>
       /\ \A p \in Publishers : ppc[p] = "idle" => ppc'[p] = "idle"
       /\ CallReturnsAtOnce =>
            /\ lastOp'.err = "err"
            /\ ~lastOp'.sent
            /\ messages' = messages
            /\ subscriptions' = subscriptions
            /\ transportSubs' = transportSubs]_vars

\* A Subscribe of an untracked topic has failed on a session that is not
\* connected, tracks a topic and has an outbox record.
C14_Witness ==
  /\ ~connected
  /\ lastOp.op = "Subscribe"
  /\ lastOp.err = "err"
  /\ ~lastOp.sent
  /\ lastOp.id \notin subscriptions
  /\ subscriptions # {}
  /\ messages # EmptyTable


(***************************************************************************)
(* The outbox operations.                                                  *)
(***************************************************************************)
\* The step is a call of the store operation op that has returned.
Called(op) == lastOp' # lastOp /\ lastOp'.op = op

\* C15: Confirm is idempotent: Confirm(id) on a record that is already
\* confirmed returns success and leaves the whole store as it was. (A call
\* the backend fails returns the backend's error and leaves the store too.)
C15_ConfirmIdempotent ==
  [][/\ \A id \in DOMAIN messages :
          messages[id].confirmed =>
            ConfirmMessage(messages, id, FALSE) =
              [err |-> "nil", tbl |-> messages]
     /\ (Called("Confirm") /\ lastOp'.rec.confirmed) =>
          /\ messages' = messages
          /\ lastOp'.err \in {"nil", "backend"}]_vars

\* A Confirm has succeeded on a record that was confirmed already, beside
\* an unconfirmed record.
C15_Witness ==
  /\ lastOp.op = "Confirm"
  /\ lastOp.rec.confirmed
  /\ lastOp.err = "nil"
  /\ \E k \in DOMAIN messages : ~messages[k].confirmed

\* The ids of no record.
AbsentIds == IdInputs \ DOMAIN messages

\* C16: Confirm, Delete and GetByID with an id that is not in the store
\* return NotFound and leave the store unchanged, at the first call and at
\* every repeated one. (A call the backend fails returns the backend's error.)
C16_AbsentIdNotFound ==
  [][/\ \A id \in AbsentIds :
          /\ GetMessageByID(messages, id, backend).err = "notfound"
          /\ ConfirmMessage(messages, id, FALSE) =
               [err |-> "notfound", tbl |-> messages]
          /\ DeleteMessage(messages, id, FALSE) =
               [err |-> "notfound", tbl |-> messages]
     /\ \A op \in {"Confirm", "Delete", "GetByID"} :
          (Called(op) /\ lastOp'.id \in AbsentIds) =>
            /\ messages' = messages
            /\ AbsentIds' = AbsentIds
            /\ lastOp'.err \in {"notfound", "backend"}]_vars

\* A Delete of an id of no record has returned NotFound on a store that
\* holds a record.
C16_Witness ==
  /\ lastOp.op = "Delete"
  /\ lastOp.err = "notfound"
  /\ lastOp.id \notin DOMAIN messages
  /\ messages # EmptyTable


\* The last call was a Store, or the Store of a Publish, and the backend
\* accepted the record.
Accepted ==
  /\ lastOp.op \in {"Store", "Publish"}
  /\ lastOp.stored = "nil"

\* C17: round trip: for every record Store accepted, GetByID with the id
\* Store assigned or kept returns a record of the same topic, qos and
\* retained flag, not confirmed, with a timestamp.
C17_StoreGetRoundTrip ==
  Accepted =>
    LET r == GetMessageByID(messages, lastOp.id, backend)
    IN /\ r.err = "nil"
       /\ r.msg.topic = lastOp.in.topic
       /\ r.msg.qos = lastOp.in.qos
       /\ r.msg.retained = lastOp.in.retained
       /\ ~r.msg.confirmed
       /\ r.msg.timestamp # ZeroTime

\* The step is a Store call that has returned: a call of its own, or the
\* call of a Publish.
StoreCalled ==
  \/ Called("Store")
  \/ Called("Publish") /\ lastOp'.stored # "none"

\* C18: Store assigns an id when the record has none and a timestamp when
\* the record has none, and keeps the supplied values otherwise; the ids of
\* the records are distinct: a Store never overwrites or alters a record.
C18_StoreAssignsAndKeeps ==
  [][StoreCalled =>
       /\ \A k \in DOMAIN messages :
            k \in DOMAIN messages' /\ messages'[k] = messages[k]
       /\ lastOp'.stored # "nil" => messages' = messages
       /\ lastOp'.stored = "nil" =>
            /\ lastOp'.id # NoID
            /\ lastOp'.id \notin DOMAIN messages
            /\ DOMAIN messages' = (DOMAIN messages) \cup {lastOp'.id}
            /\ lastOp'.given.id # NoID => lastOp'.id = lastOp'.given.id
            /\ messages'[lastOp'.id].timestamp =
                 IF lastOp'.given.timestamp = ZeroTime THEN now
                 ELSE lastOp'.given.timestamp]_vars

\* A Store has assigned an id and kept a supplied timestamp that is not
\* the time of the call, beside a record stored before.
C18_Witness ==
  /\ lastOp.op = "Store"
  /\ lastOp.stored = "nil"
  /\ lastOp.given.id = NoID
  /\ lastOp.id \in DOMAIN messages
  /\ lastOp.given.timestamp # now
  /\ messages[lastOp.id].timestamp = lastOp.given.timestamp
  /\ Cardinality(DOMAIN messages) > 1


\* C19: List(confirmed, limit) returns only records whose confirmed flag is
\* the argument, newest timestamp first, at most limit of them (at most 100
\* when limit is zero or negative), and the newest when more qualify.
C19_ListNewestFirstBounded ==
  (lastOp.op = "List" /\ lastOp.err # "backend") =>
    LET q == Qualifying(messages, lastOp.args.confirmed)
        bound == EffectiveLimit(lastOp.args.limit)
        l == lastOp.list
    IN /\ lastOp.err = "nil"
       /\ \A i \in DOMAIN l : l[i] \in q
       /\ \A i, j \in DOMAIN l : i # j => l[i] # l[j]
       /\ \A i, j \in DOMAIN l :
            i < j => messages[l[i]].timestamp >= messages[l[j]].timestamp
       /\ Len(l) = IF Cardinality(q) < bound THEN Cardinality(q) ELSE bound
       /\ \A k \in q : \A i \in DOMAIN l :
            k \notin {l[j] : j \in DOMAIN l} =>
              messages[k].timestamp <= messages[l[i]].timestamp


(***************************************************************************)
(* The topic matcher.                                                      *)
(***************************************************************************)
\* A filter level matches a topic level: it is the level, or it is "+".
LevelMatches(f, t) == f = <<"+">> \/ f = t

\* The reference matcher. A filter that ends in the multi-level wildcard,
\* the level "#": the topic has at least the levels before the wildcard and
\* each of those matches. Any other filter: as many levels as the topic, and
\* each matches.
ReferenceMatch(topic, filter) ==
  LET t == Split(topic)
      f == Split(filter)
  IN IF f[Len(f)] = <<"#">>
       THEN /\ Len(t) >= Len(f) - 1
            /\ \A i \in 1..(Len(f) - 1) : LevelMatches(f[i], t[i])
       ELSE /\ Len(t) = Len(f)
            /\ \A i \in 1..Len(f) : LevelMatches(f[i], t[i])

\* C20: for all topics T and filters F, TopicMatchesFilter(T, F) is what
\* the reference matcher says.
C20_MatchesReference ==
  mdone => (matched = ReferenceMatch(mtopic, mfilter))


(***************************************************************************)
(* The webhook registry.                                                   *)
(***************************************************************************)
\* The definitions of the table a lookup of the topic has to return.
Candidates(topic) ==
  {i \in DOMAIN registry :
     registry[i].enabled /\ TopicMatchesFilter(topic, registry[i].topicFilter)}

C23_PersistedValid ==
  /\ [](\A i \in DOMAIN registry :
          /\ registry[i].url # ""
          /\ registry[i].topicFilter # <<>>
          /\ registry[i].method # ""
          /\ registry[i].timeout > 0
          /\ registry[i].retryCount >= 0
          /\ registry[i].retryDelay > 0)
  /\ [][(lastReg' # lastReg /\ lastReg'.op \in {"Create", "Update"}
          /\ lastReg'.status = 400) => registry' = registry]_vars

\* A create request that names a URL, a method and a topic filter is
\* refused by Validate while a definition is persisted.
C23_Witness ==
  /\ lastReg.op = "Create" /\ lastReg.status = 400
  /\ lastReg.req["url"] # "" /\ lastReg.req["topic_filter"] # <<>>
  /\ lastReg.req["method"] # "" /\ lastReg.req["retry_delay"] = 0
  /\ Len(registry) >= 1

\* C24: a create request that gives a URL and a topic filter is accepted
\* when the method is omitted, and the stored definition has the method
\* POST; an omitted timeout, retry count or retry delay is stored as 10, 3
\* or 5.  An omitted field reaches the handler as its zero value.
C24_OmittedTakeDefaults ==
  (/\ lastReg.op = "Create"
   /\ lastReg.req["url"] # "" /\ lastReg.req["topic_filter"] # <<>>
   /\ lastReg.status # 500) =>
     /\ lastReg.req["method"] = "" =>
          lastReg.status = 201 /\ lastReg.stored.method = "POST"
     /\ (lastReg.req["timeout"] = 0 /\ lastReg.status = 201) =>
          lastReg.stored.timeout = 10
     /\ (lastReg.req["retry_count"] = 0 /\ lastReg.status = 201) =>
          lastReg.stored.retryCount = 3
     /\ (lastReg.req["retry_delay"] = 0 /\ lastReg.status = 201) =>
          lastReg.stored.retryDelay = 5

(***************************************************************************)
(* The tracked subscription set.                                           *)
(***************************************************************************)
\* C25: the tracked set starts empty; a Subscribe that returns nil adds its
\* topic, an Unsubscribe that returns nil removes its topic, and every other
\* step (a call that returns an error included) leaves the set as it was:
\* so after any sequence of calls the set is the topics whose most recent
\* successful call was Subscribe.
C25_TrackedIsLastSuccess ==
  /\ subscriptions = {}
  /\ [](lastOp.err = "nil" =>
          /\ lastOp.op = "Subscribe" => lastOp.id \in subscriptions
          /\ lastOp.op = "Unsubscribe" => lastOp.id \notin subscriptions)
  /\ [][IF Called("Subscribe") /\ lastOp'.err = "nil"
          THEN subscriptions' = subscriptions \cup {lastOp'.id}
        ELSE IF Called("Unsubscribe") /\ lastOp'.err = "nil"
          THEN subscriptions' = subscriptions \ {lastOp'.id}
        ELSE subscriptions' = subscriptions]_vars

\* An Unsubscribe the transport refused, for a tracked topic, beside a topic
\* that is neither tracked nor subscribed.
C25_Witness ==
  /\ lastOp.op = "Unsubscribe" /\ lastOp.err = "err" /\ lastOp.sent
  /\ lastOp.id \in subscriptions
  /\ subscriptions # SubTopics
  /\ \E t \in SubTopics \ subscriptions : t \notin DOMAIN transportSubs

(***************************************************************************)
(* The targets of a dispatch.                                              *)
(***************************************************************************)
\* The targets a dispatch has made an HTTP attempt to.
Attempted(m) == {u \in TargetURLs : \E i \in DOMAIN firstOrder[u] :
                                     firstOrder[u][i] = m}

\* The global target when it is enabled and has a URL, and every enabled
\* stored webhook whose filter matches the topic.
Targeted(topic) ==
  (IF webhookConfig.enabled /\ webhookConfig.url # ""
     THEN {webhookConfig.url} ELSE {}) \cup
  {webhooks[i].url : i \in {j \in DOMAIN webhooks :
      webhooks[j].enabled /\ TopicMatchesFilter(topic, webhooks[j].topicFilter)}}

\* Those of them whose request http.NewRequest can create.
Creatable(topic) ==
  (IF webhookConfig.enabled /\ webhookConfig.url # ""
        /\ ~NewRequestErr(webhookConfig.method, webhookConfig.url)
     THEN {webhookConfig.url} ELSE {}) \cup
  {webhooks[i].url : i \in {j \in DOMAIN webhooks :
      /\ webhooks[j].enabled
      /\ TopicMatchesFilter(topic, webhooks[j].topicFilter)
      /\ ~NewRequestErr(webhooks[j].method, webhooks[j].url)}}

C26_DeliveryTerminates ==
  \A m \in Tasks :
    (task[m].pc = "build") ~>
      (/\ task[m].pc = "returned"
       /\ task[m].outcome \in {"success", "failed", "norequest"}
       /\ task[m].attempts <= Cur(task[m]).retryCount + 1
       /\ task[m].outcome = "success" => task[m].last = "2xx"
       /\ task[m].outcome = "failed" =>
            task[m].attempts = Cur(task[m]).retryCount + 1)

\* A delivery has returned with the failure logged after a first attempt
\* and every retry.
C26_Witness ==
  \E m \in Tasks :
    /\ task[m].pc = "returned" /\ task[m].outcome = "failed"
    /\ Cur(task[m]).retryCount >= 1
    /\ task[m].attempts = Cur(task[m]).retryCount + 1

(***************************************************************************)
(* The metrics Aggregator.                                                 *)
(***************************************************************************)
\* The goroutines inside a mutation: between Lock and the return.
Mutating == {g \in Goroutines :
               mproc[g].pc \in {"load", "store", "stamp", "reset", "unlock"}}

\* The goroutines inside GetMetrics with the read lock.
Reading == {g \in Goroutines : mproc[g].pc \in {"snap", "runlock"}}

\* C27: under every interleaving of concurrent calls no update is lost:
\* whenever no mutation is under way each counter is the number of
\* increment calls on it that have returned since construction or the last
\* Reset; and GetMetrics never shows a mutation in part: no mutation is under
\* way while it reads, and what it returns is the fields as they were when
\* it began, the counters being the calls returned.
C27_NoLostUpdateNoTornSnapshot ==
  /\ Mutating = {} => \A c \in Counters : metrics[c] = calls.done[c]
  /\ Reading # {} => Mutating = {}
  /\ \A g \in Goroutines :
       mproc[g].pc = "runlock" =>
         /\ mproc[g].snap = <<mproc[g].at.PublishedMessages,
                              mproc[g].at.APIRequests,
                              mproc[g].at.LastUpdated>>
         /\ mproc[g].snap[1] = calls.done["PublishedMessages"]
         /\ mproc[g].snap[2] = calls.done["APIRequests"]

\* GetMetrics is about to return a map that shows the increments of two
\* goroutines, while the other goroutine waits for the lock.
C27_Witness ==
  \E g, h \in Goroutines :
    /\ g # h
    /\ mproc[g].pc = "runlock" /\ mproc[g].snap[2] = 2
    /\ mproc[h].pc = "lock" /\ mproc[h].op = "Increment"

\* C28: after any sequence of AddPublishLatency and AddSubscribeLatency
\* calls each window holds at most 100 samples, the most recently added
\* ones in the order of their arrival; a call on a full window drops
\* exactly the oldest sample. (The n-th sample added to a window is n.)
C28_WindowKeepsNewest ==
  /\ [](\A w \in {"PublishLatency", "SubscribeLatency"} :
          LET win == metrics[w]
              n == calls.samples[w]
          IN /\ Len(win) <= 100
             /\ Len(win) = IF n <= 100 THEN n ELSE 100
             /\ \A i \in DOMAIN win : win[i] = n - Len(win) + i)
  /\ [][\A w \in {"PublishLatency", "SubscribeLatency"} :
          (metrics'[w] # metrics[w] /\ Len(metrics[w]) = 100) =>
             metrics'[w] = Append(Tail(metrics[w]), calls.samples[w] + 1)]_vars

\* Two samples have been added to a full publish window: it holds the
\* samples 3 to 102, and the subscribe window holds its only two.
C28_Witness ==
  /\ calls.samples["PublishLatency"] = 102
  /\ Len(metrics.PublishLatency) = 100
  /\ metrics.PublishLatency[1] = 3 /\ metrics.PublishLatency[100] = 102
  /\ metrics.SubscribeLatency = <<1, 2>>

(***************************************************************************)
(* The authentication middleware.                                          *)
(***************************************************************************)
\* The keys a request presents: the X-API-Key header, the api_key
\* parameter and the token of an Authorization header "Bearer <token>".
Presented(req) ==
  ({req.xApiKey, req.queryKey} \cup
   (IF /\ Len(req.authorization) > 7
       /\ SubSeq(req.authorization, 1, 7) = BearerPrefix
      THEN {SubSeq(req.authorization, 8, Len(req.authorization))}
      ELSE {})) \ {<<>>}

ConfiguredKeys == {authConfig.APIKeys[i] : i \in DOMAIN authConfig.APIKeys}

\* C29: with the API key authentication enabled, a request to a path other
\* than /healthz reaches its handler only if it presents a configured key
\* in one of the three places, and a request that presents none is answered
\* 401 without its handler running; with the authentication disabled every
\* request reaches its handler. A request is answered 401 exactly when its
\* handler does not run.
C29_KeyNeeded ==
  lastReq.status # 0 =>
    /\ lastReq.ran <=> lastReq.status # 401
    /\ (authConfig.EnableAPIKey /\ lastReq.req.path # "/healthz") =>
         /\ lastReq.ran => Presented(lastReq.req) \cap ConfiguredKeys # {}
         /\ Presented(lastReq.req) \cap ConfiguredKeys = {} =>
              lastReq.status = 401
    /\ ~authConfig.EnableAPIKey => lastReq.ran

\* With the authentication enabled a request to /status that carries a
\* configured key as its Bearer token, and nothing else, has reached its
\* handler.
C29_Witness ==
  /\ authConfig.EnableAPIKey
  /\ lastReq.req.path = "/status"
  /\ lastReq.req.xApiKey = <<>> /\ lastReq.req.queryKey = <<>>
  /\ lastReq.req.authorization = BearerPrefix \o Key1
  /\ lastReq.ran

(***************************************************************************)
(* The router.                                                             *)
(***************************************************************************)
\* C30: a DELETE request to /messages/confirmed is routed to the purge: it
\* deletes the confirmed messages and answers their count.
C30_DeleteConfirmedIsPurge ==
  (routed.method = "DELETE" /\ routed.path = <<"messages", "confirmed">>) =>
    routed.handler = "handleDeleteConfirmedMessages"

(***************************************************************************)
(* The two backends.                                                       *)
(***************************************************************************)
OtherBackend(b) == IF b = "sqlite" THEN "mongodb" ELSE "sqlite"

\* C31: the relational and the document backend answer the same calls with
\* the same results. Here for the read of a record: what GetByID returned
\* (success or NotFound, and the record) is what the other backend returns
\* for the same id on the same records.
C31_BackendsAgree ==
  lastOp.op = "GetByID" =>
    LET o == GetMessageByID(messages, lastOp.id, OtherBackend(backend))
    IN lastOp.err = o.err /\ lastOp.rec = o.msg

(***************************************************************************)
(* GetClient: the empty name and the names without a usable configuration. *)
(***************************************************************************)
\* A GetClient call returns in this step.
GetClientReturns == \E g \in Callers : gpc[g] # "idle" /\ gpc'[g] = "idle"

\* The names with a configuration that has host, port and client id.
Usable == {"x", "y"}

C33_EveryAttemptHasBody ==
  \A m \in Tasks : task[m].pc = "wait" => ~task[m].consumed

(***************************************************************************)
(* Requests that name a record the database does not hold.                 *)
(***************************************************************************)
\* C34: a request to get, update or delete a webhook definition whose id
\* the database does not hold is answered with status 404 and never with a
\* 5xx status, when the database itself does not fail.
C34_AbsentIdIs404 ==
  [][(\/ handleGetWebhook("zz", FALSE)
      \/ handleDeleteWebhook("zz", FALSE)
      \/ \E body \in WebhookBodies : handleUpdateWebhook("zz", body, FALSE))
     => lastReg'.status = 404]_vars

(***************************************************************************)
(* What an update leaves alone.                                            *)
(***************************************************************************)
\* The field of a definition that a field of a request body sets.
WebhookField(w, f) ==
  IF f = "url" THEN w.url
  ELSE IF f = "method" THEN w.method
  ELSE IF f = "topic_filter" THEN w.topicFilter
  ELSE IF f = "enabled" THEN w.enabled
  ELSE IF f = "timeout" THEN w.timeout
  ELSE IF f = "retry_count" THEN w.retryCount
  ELSE w.retryDelay

\* C39: an update of a webhook definition changes only the fields the
\* request body supplies: every field the body omits, enabled and
\* retry_count included, has in the persisted definition the value it had
\* before the request.
C39_OmittedFieldsUnchanged ==
  [][\A id \in WebhookIds(registry), body \in WebhookBodies :
       handleUpdateWebhook(id, body, FALSE) /\ lastReg'.status = 200 =>
         \A f \in RequestFields \ DOMAIN body :
           WebhookField(GetWebhookByID(registry', id).webhook, f)
             = WebhookField(GetWebhookByID(registry, id).webhook, f)]_vars

(***************************************************************************)
(* ResubscribeAll and the quality of service of a subscription.            *)
(***************************************************************************)
\* C40: ResubscribeAll re-issues the subscription of each tracked topic
\* with the quality of service it was subscribed with, and leaves the
\* tracked set unchanged: after a call that returns nil on a connected
\* session, every tracked topic the transport held keeps its QoS.
C40_ResubscribeKeepsQoS ==
  [][Called("ResubscribeAll") /\ lastOp'.err = "nil" =>
       /\ subscriptions' = subscriptions
       /\ \A t \in subscriptions \cap DOMAIN transportSubs :
            transportSubs'[t] = transportSubs[t]]_vars

(***************************************************************************)
(* The ids the store assigns.                                              *)
(***************************************************************************)
\* C36: Store calls that give no id, made at any times and by any number
\* of callers, all succeed when the backend does not fail, and each is
\* assigned an id that no record of the store has.
C36_AssignedIdsDistinct ==
  [][\A msg \in StoreInputsAll :
       (msg.id = NoID /\ Marshalable(msg.payload) /\ Store(msg, FALSE)) =>
         /\ lastOp'.err = "nil"
         /\ lastOp'.id \notin DOMAIN messages
         /\ lastOp'.id \in DOMAIN messages']_vars

(***************************************************************************)
(* The envelope and the subscription count.                                *)
(***************************************************************************)
\* C35: the broker field of an envelope names the session the message
\* arrived on: for a subscription made with an empty broker name it is the
\* name of the default connection and not the empty string.
C35_EnvelopeNamesSession ==
  envelope # NoEnvelope => envelope.broker = envelope.session

\* C38: whenever no subscribe or unsubscribe request is in progress, the
\* subscription count of the Aggregator is the sum of the sizes of the
\* tracked sets of all sessions.
C38_CountIsSumAtRest ==
  (\A h \in Handlers : hpc[h] = "idle") =>
    subscriptionCount = SumSizes(tracked, SessionNames)

(***************************************************************************)
(* The embedded broker.                                                    *)
(***************************************************************************)
\* C37: after any sequence of Start and Stop calls, a Start that fails
\* part-way and a Stop whose context expires included, IsRunning() is true
\* exactly when the embedded server is serving: running is never left true
\* once the server has been closed.
C37_RunningIffServing ==
  ~closing => (running <=> server = "serving")

====
